---- MODULE Spec2Model ----
(***************************************************************************)
(* A model of the content-structuring pipeline of pdf_extractor:           *)
(*   - StructureBuilder / HeaderStack   (structure_builder.py)             *)
(*   - TableExtractor cascade           (table_extractor.py,               *)
(*                                       table_wrappers.py,                *)
(*                                       table_normalizer.py)              *)
(*   - ContentClassifier                (content_classifier.py)            *)
(* Texts are sequences of one-character strings, so that strip(), the      *)
(* list-marker patterns, split() and isupper() are computed, not assumed.  *)
(***************************************************************************)
EXTENDS Integers, Sequences, FiniteSets, TLC

VARIABLES
    \* ---- StructureBuilder.build_structure ----
    sb_pc,            \* "idle" | "scanning" | "returned" | "raised"
    all_blocks,       \* the blocks scanned so far, in scan order
    sections,         \* arena of every SectionNode created (index = identity)
    stack,            \* HeaderStack._stack, bottom first (section indices)
    level_map,        \* HeaderStack._level_map: level -> section index, 0 = absent
    doc_sections,     \* DocumentStructure.sections (section indices)
    \* ---- ContentClassifier / process_with_classifier ----
    cc_pc,            \* "idle" | "page" | "classified"
    page_spans,       \* the spans of the page, in content-block order
    baseline,         \* ContentClassifier.baseline_font_style
    classified,       \* the TextBlocks classify_page_content returned
    pending,          \* classified blocks build_structure has not scanned yet
    \* ---- TableExtractor.extract_tables_from_page ----
    te_pc,            \* "idle" | "analyze" | "primary" | "fallback" | "score" | "done"
    te_cfg,           \* [enable_pre_analysis, fallback_on_failure]
    te_page,          \* page_num of the running call
    te_cache,         \* TableExtractor._page_analysis_cache
    te_analysis,      \* the PageAnalysis the call works with
    te_chain,         \* [success, tables, method] of the last chain run
    te_calls,         \* backends called in this call, in order: what each was given
                      \* to return (outcome) and what came of it (did)
    te_faulty,        \* candidate tables whose quality analysis raised
    te_result,        \* the TableExtractionResult being filled
    \* ---- one call of a pure function (normalize_text, normalize_table,
    \*      Table.to_2d_array) and a second call on what it left ----
    fn_pc,            \* "idle" | "ready" | "once" | "twice" | "raised"
    fn_in,            \* the argument (for to_2d_array: the Table)
    fn_out,           \* the returned values, in call order
    \* ---- TextCleaner.clean_pages ----
    tc_pc,            \* "idle" | "pages" | "cleaned"
    tc_pages,         \* the PageContent list handed to the cleaner
    tc_artifacts,     \* the artifacts _detect_artifacts returned to clean_pages
    tc_cleaned,       \* the cleaned pages clean_pages returned
    tc_report,        \* report['artifacts'] of get_artifact_report, <<>> before the call
    \* ---- PDFStructureExtractor.extract ----
    ex_pc,            \* "idle" | "open" | "password" | "result" | "pages" | "finish" | "exit"
    ex_handle,        \* pdf_doc: "none" | "open" | "closed" | "close_failed"
    ex_next,          \* page_num of the next loop iteration
    ex_count,         \* pdf_doc.page_count
    ex_pages,         \* page numbers appended to result.pages
    ex_errors,        \* page numbers recorded in result.errors
    ex_faults,        \* what went wrong so far: records [page, at]; page 0 = the document
    ex_exit           \* "none" | "return" | the type of the exception that escaped

sbVars == <<sb_pc, all_blocks, sections, stack, level_map, doc_sections>>
ccVars == <<cc_pc, page_spans, baseline, classified, pending>>
teVars == <<te_pc, te_cfg, te_page, te_cache, te_analysis, te_chain,
            te_calls, te_faulty, te_result>>
fnVars == <<fn_pc, fn_in, fn_out>>
tcVars == <<tc_pc, tc_pages, tc_artifacts, tc_cleaned, tc_report>>
exVars == <<ex_pc, ex_handle, ex_next, ex_count, ex_pages, ex_errors, ex_faults, ex_exit>>
vars == <<sbVars, ccVars, teVars, fnVars, tcVars, exVars>>

(***************************************************************************)
(* Generic helpers                                                         *)
(***************************************************************************)
Range(s) == {s[i] : i \in 1..Len(s)}

Min2(a, b) == IF a <= b THEN a ELSE b

RECURSIVE FlattenSeq(_)
FlattenSeq(ss) == IF ss = <<>> THEN <<>> ELSE Head(ss) \o FlattenSeq(Tail(ss))

SetMax(S) == CHOOSE x \in S : \A y \in S : y <= x

SetMin(S) == CHOOSE x \in S : \A y \in S : x <= y

(***************************************************************************)
(* Texts: str.strip, str.split, str.isupper                                *)
(***************************************************************************)
WhitespaceChars == {" ", "\t", "\n", "\r"}

UpperChars == {"A", "B", "C", "D", "E", "F", "G", "H", "I", "J", "K", "L", "M",
               "N", "O", "P", "Q", "R", "S", "T", "U", "V", "W", "X", "Y", "Z"}

LowerChars == {"a", "b", "c", "d", "e", "f", "g", "h", "i", "j", "k", "l", "m",
               "n", "o", "p", "q", "r", "s", "t", "u", "v", "w", "x", "y", "z"}

DigitChars == {"0", "1", "2", "3", "4", "5", "6", "7", "8", "9"}

RECURSIVE LStrip(_)
LStrip(t) ==
    IF t # <<>> /\ Head(t) \in WhitespaceChars THEN LStrip(Tail(t)) ELSE t

RECURSIVE RStrip(_)
RStrip(t) ==
    IF t # <<>> /\ t[Len(t)] \in WhitespaceChars
    THEN RStrip(SubSeq(t, 1, Len(t) - 1)) ELSE t

\* str.strip()
Strip(t) == RStrip(LStrip(t))

\* len(text.split()): the number of maximal runs of non-whitespace
WordCount(t) ==
    Cardinality({i \in 1..Len(t) :
        /\ t[i] \notin WhitespaceChars
        /\ (i = 1 \/ t[i - 1] \in WhitespaceChars)})

\* str.isupper(): at least one cased character and no lowercase one
IsUpper(t) ==
    /\ \E i \in 1..Len(t) : t[i] \in UpperChars
    /\ \A i \in 1..Len(t) : t[i] \notin LowerChars

\* ' '.join(parts)
RECURSIVE JoinSpace(_)
JoinSpace(parts) ==
    IF parts = <<>> THEN <<>>
    ELSE IF Len(parts) = 1 THEN Head(parts)
    ELSE Head(parts) \o <<" ">> \o JoinSpace(Tail(parts))

(***************************************************************************)
(* models.py: ContentType, HeaderLevel, SectionNode                        *)
(***************************************************************************)
HeaderContentTypes ==
    {"header", "header_1", "header_2", "header_3", "header_4", "header_5", "header_6"}

\* ContentType.is_header_type
is_header_type(ct) == ct \in HeaderContentTypes

\* ContentType.get_header_level; 0 stands for None
get_header_level(ct) ==
    CASE ct = "header_1" -> 1
      [] ct = "header_2" -> 2
      [] ct = "header_3" -> 3
      [] ct = "header_4" -> 4
      [] ct = "header_5" -> 5
      [] ct = "header_6" -> 6
      [] ct = "header"   -> 1
      [] OTHER           -> 0

NoFont == [size |-> 0, bold |-> FALSE, present |-> FALSE]

\* A TextBlock, Table or ImageInfo as the structure builder sees it.  cls is
\* the Python class; content_type is "" for a Table or an ImageInfo, which
\* have no such attribute.  spans names the page spans a classified block
\* was made of.  parent_section / position_in_section are the metadata
\* _enhance_content_metadata writes (0 / -1: not written).
MkBlock(cls, ct, text, font, spans) ==
    [cls |-> cls, content_type |-> ct, text |-> text, font_info |-> font,
     spans |-> spans, parent_section |-> 0, position_in_section |-> -1]

ZeroStats ==
    [total_blocks |-> 0, text_blocks |-> 0, tables |-> 0, images |-> 0,
     paragraphs |-> 0, lists |-> 0, other |-> 0]

\* SectionNode(title, level, ...): content_blocks holds indices into
\* all_blocks, subsections holds indices into sections.
MkSection(title, level, is_default) ==
    [title |-> title, level |-> level, content_blocks |-> <<>>,
     subsections |-> <<>>, is_default |-> is_default, content_stats |-> ZeroStats]

TitleContent == <<"C", "o", "n", "t", "e", "n", "t">>

TitleTables == <<"T", "a", "b", "l", "e", "s", " ", "a", "n", "d", " ", "D", "a", "t", "a">>

TitleImages == <<"I", "m", "a", "g", "e", "s", " ", "a", "n", "d", " ",
                 "F", "i", "g", "u", "r", "e", "s">>

(***************************************************************************)
(* structure_builder.py: HeaderStack                                       *)
(***************************************************************************)
\* ClosesSection with > for >=: only strictly deeper sections are closed
ClosesSectionStrict(topLevel, level) == topLevel > level

\* the loop condition of HeaderStack.push: the section on top is closed by
\* a new section of this level
ClosesSection(topLevel, level) == topLevel >= level

\* the while loop of HeaderStack.push
RECURSIVE PopClosed(_, _, _, _)
PopClosed(secs, stk, lmap, level) ==
    IF stk # <<>> /\ ClosesSection(secs[stk[Len(stk)]].level, level)
    THEN PopClosed(secs, SubSeq(stk, 1, Len(stk) - 1),
                   [lmap EXCEPT ![secs[stk[Len(stk)]].level] = 0], level)
    ELSE [stack |-> stk, level_map |-> lmap]

\* Push without the attachment to the parent left on top
PushUnattached(secs, stk, lmap, sidx) ==
    LET level  == secs[sidx].level
        popped == PopClosed(secs, stk, lmap, level)
    IN  [sections  |-> secs,
         stack     |-> Append(popped.stack, sidx),
         level_map |-> [popped.level_map EXCEPT ![level] = sidx]]

\* HeaderStack.push(section), the section already being secs[sidx]
Push(secs, stk, lmap, sidx) ==
    LET level  == secs[sidx].level
        popped == PopClosed(secs, stk, lmap, level)
        pstk   == popped.stack
        secs2  == IF pstk # <<>>
                  THEN [secs EXCEPT ![pstk[Len(pstk)]].subsections = Append(@, sidx)]
                  ELSE secs
    IN  [sections  |-> secs2,
         stack     |-> Append(pstk, sidx),
         level_map |-> [popped.level_map EXCEPT ![level] = sidx]]

\* HeaderStack.get_current_section; 0 stands for None
get_current_section(stk) == IF stk # <<>> THEN stk[Len(stk)] ELSE 0

(***************************************************************************)
(* structure_builder.py: StructureBuilder                                  *)
(***************************************************************************)
\* StructureBuilder.auto_detect_headers (constructor default)
auto_detect_headers == TRUE

\* _is_header_block
IsHeaderBlock(b) == IF b.cls = "TextBlock" THEN is_header_type(b.content_type) ELSE FALSE

\* _get_block_type
GetBlockType(b) ==
    IF b.cls = "TextBlock" THEN b.content_type
    ELSE IF b.cls = "Table" THEN "table"
    ELSE IF b.cls = "ImageInfo" THEN "image"
    ELSE "unknown"

\* _infer_header_level_from_font.  font_info.get('font_size', 12.0) and
\* font_info.get('is_bold', False): the classifier's font_info dict has the
\* keys 'size' and 'bold', not 'font_size' and 'is_bold', so the lookups of
\* such a dict fall back to 12.0 and False.
InferHeaderLevelFromFont(b) ==
    IF ~b.font_info.present THEN 1
    ELSE LET font_size == IF "font_size" \in DOMAIN b.font_info
                          THEN b.font_info.font_size ELSE 12
             is_bold   == IF "is_bold" \in DOMAIN b.font_info
                          THEN b.font_info.is_bold ELSE FALSE
         IN  IF font_size >= 18 THEN 1
             ELSE IF font_size >= 16 THEN 2
             ELSE IF font_size >= 14 THEN 3
             ELSE IF is_bold /\ font_size >= 12 THEN 4
             ELSE IF font_size >= 12 THEN 5
             ELSE 6

\* _determine_header_level with the font inference tried before the level
\* of the content type
DetermineHeaderLevelFontFirst(b) ==
    IF auto_detect_headers /\ b.font_info.present THEN InferHeaderLevelFromFont(b)
    ELSE IF get_header_level(b.content_type) # 0 THEN get_header_level(b.content_type)
    ELSE 1

\* _determine_header_level
DetermineHeaderLevel(b) ==
    IF get_header_level(b.content_type) # 0 THEN get_header_level(b.content_type)
    ELSE IF auto_detect_headers THEN InferHeaderLevelFromFont(b)
    ELSE 1

\* _create_section_from_header
CreateSectionFromHeader(b) == MkSection(Strip(b.text), DetermineHeaderLevel(b), FALSE)

\* _create_default_section
CreateDefaultSection(b) ==
    MkSection(IF GetBlockType(b) = "table" THEN TitleTables
              ELSE IF GetBlockType(b) = "image" THEN TitleImages
              ELSE TitleContent,
              1, TRUE)

\* _update_section_content_stats.  For a TextBlock that is not a PARAGRAPH
\* the code evaluates ContentType.LIST_ITEM, which is no member of the enum:
\* AttributeError, after total_blocks was incremented.
UpdateSectionContentStats(stats, b) ==
    LET s1 == [stats EXCEPT !.total_blocks = @ + 1]
    IN  IF GetBlockType(b) = "table"
          THEN [stats |-> [s1 EXCEPT !.tables = @ + 1], raised |-> FALSE]
        ELSE IF GetBlockType(b) = "image"
          THEN [stats |-> [s1 EXCEPT !.images = @ + 1], raised |-> FALSE]
        ELSE IF b.cls = "TextBlock"
          THEN IF b.content_type = "paragraph"
               THEN [stats |-> [s1 EXCEPT !.paragraphs = @ + 1], raised |-> FALSE]
               ELSE [stats |-> s1, raised |-> TRUE]
        ELSE [stats |-> [s1 EXCEPT !.other = @ + 1], raised |-> FALSE]

\* _add_content_to_section: _enhance_content_metadata, section.add_content,
\* _update_section_content_stats.  bidx is the block's place in all_blocks.
AddContentToSection(secs, sidx, b, bidx) ==
    LET b2  == [b EXCEPT !.parent_section = sidx,
                         !.position_in_section = Len(secs[sidx].content_blocks)]
        upd == UpdateSectionContentStats(secs[sidx].content_stats, b2)
    IN  [sections |-> [secs EXCEPT ![sidx].content_blocks = Append(@, bidx),
                                   ![sidx].content_stats = upd.stats],
         block    |-> b2,
         raised   |-> upd.raised]

\* _associate_content_with_section
AssociateContentWithSection(secs, stk, lmap, docs, b, bidx) ==
    IF get_current_section(stk) # 0
    THEN LET added == AddContentToSection(secs, get_current_section(stk), b, bidx)
         IN  [sections |-> added.sections, stack |-> stk, level_map |-> lmap,
              doc_sections |-> docs, block |-> added.block, raised |-> added.raised]
    ELSE LET sidx   == Len(secs) + 1
             pushed == Push(Append(secs, CreateDefaultSection(b)), stk, lmap, sidx)
             added  == AddContentToSection(pushed.sections, sidx, b, bidx)
         IN  [sections |-> added.sections, stack |-> pushed.stack,
              level_map |-> pushed.level_map,
              doc_sections |-> Append(docs, sidx),
              block |-> added.block, raised |-> added.raised]

\* One iteration of the loop of build_structure over all_blocks.
ScanBlock(b) ==
    /\ sb_pc = "scanning"
    /\ IF IsHeaderBlock(b)
       THEN LET sidx   == Len(sections) + 1
                pushed == Push(Append(sections, CreateSectionFromHeader(b)),
                               stack, level_map, sidx)
            IN  /\ sections' = pushed.sections
                /\ stack' = pushed.stack
                /\ level_map' = pushed.level_map
                /\ doc_sections' = IF pushed.sections[sidx].level = 1
                                   THEN Append(doc_sections, sidx)
                                   ELSE doc_sections
                /\ all_blocks' = Append(all_blocks, b)
                /\ sb_pc' = "scanning"
       ELSE LET r == AssociateContentWithSection(sections, stack, level_map,
                                                 doc_sections, b, Len(all_blocks) + 1)
            IN  /\ sections' = r.sections
                /\ stack' = r.stack
                /\ level_map' = r.level_map
                /\ doc_sections' = r.doc_sections
                /\ all_blocks' = Append(all_blocks, r.block)
                /\ sb_pc' = IF r.raised THEN "raised" ELSE "scanning"

\* build_structure returns doc once all_blocks is exhausted.
ReturnDoc ==
    /\ sb_pc = "scanning"
    /\ sb_pc' = "returned"
    /\ UNCHANGED <<all_blocks, sections, stack, level_map, doc_sections>>

\* DocumentStructure.get_all_sections: the sections reachable from the
\* document, flattened in pre-order (a section reachable twice is listed twice)
RECURSIVE CollectSections(_, _)
CollectSections(idxs, secs) ==
    IF idxs = <<>> THEN <<>>
    ELSE <<Head(idxs)>> \o CollectSections(secs[Head(idxs)].subsections, secs)
                        \o CollectSections(Tail(idxs), secs)

get_all_sections == CollectSections(doc_sections, sections)

(***************************************************************************)
(* Idle values: a component that a specification does not run              *)
(***************************************************************************)
DefaultBaseline == [size |-> 12, font |-> "Unknown", bold |-> FALSE, italic |-> FALSE]

IdleSb ==
    /\ sb_pc = "idle"
    /\ all_blocks = <<>>
    /\ sections = <<>>
    /\ stack = <<>>
    /\ level_map = [l \in 1..6 |-> 0]
    /\ doc_sections = <<>>

IdleCc ==
    /\ cc_pc = "idle"
    /\ page_spans = <<>>
    /\ baseline = DefaultBaseline
    /\ classified = <<>>
    /\ pending = <<>>

IdleFn ==
    /\ fn_pc = "idle"
    /\ fn_in = <<>>
    /\ fn_out = <<>>

IdleTc ==
    /\ tc_pc = "idle"
    /\ tc_pages = <<>>
    /\ tc_artifacts = <<>>
    /\ tc_cleaned = <<>>
    /\ tc_report = <<>>

IdleEx ==
    /\ ex_pc = "idle"
    /\ ex_handle = "none"
    /\ ex_next = 0
    /\ ex_count = 0
    /\ ex_pages = <<>>
    /\ ex_errors = <<>>
    /\ ex_faults = {}
    /\ ex_exit = "none"

IdleRest == IdleFn /\ IdleTc /\ IdleEx

(***************************************************************************)
(* SpecStructure: build_structure over an arbitrary stream of blocks       *)
(***************************************************************************)
\* longest stream of blocks given to build_structure
MaxBlocks == 4

StreamText == <<"T", "e", "x", "t">>

StreamTextTypes == HeaderContentTypes \cup {"paragraph", "list", "text"}

StreamBlocks ==
    {MkBlock("TextBlock", ct, StreamText, NoFont, <<>>) : ct \in StreamTextTypes}
    \cup {MkBlock("Table", "", <<>>, NoFont, <<>>),
          MkBlock("ImageInfo", "", <<>>, NoFont, <<>>)}

\* build_structure starts: a fresh DocumentStructure and HeaderStack
StartBuild ==
    /\ sb_pc = "scanning"
    /\ all_blocks = <<>>
    /\ sections = <<>>
    /\ stack = <<>>
    /\ level_map = [l \in 1..6 |-> 0]
    /\ doc_sections = <<>>

ScanStreamBlock ==
    /\ Len(all_blocks) < MaxBlocks
    /\ \E b \in StreamBlocks : ScanBlock(b)
    /\ UNCHANGED <<ccVars, teVars>>
    /\ UNCHANGED <<fnVars, tcVars, exVars>>

ReturnStreamDoc ==
    /\ ReturnDoc
    /\ UNCHANGED <<ccVars, teVars>>
    /\ UNCHANGED <<fnVars, tcVars, exVars>>

(***************************************************************************)
(* Tables: List[List[str]].  A cell is a text; NoneCell stands for a cell  *)
(* that is not a string (None), on which cell.strip() raises.              *)
(***************************************************************************)
NoneCell == <<"<None>">>

X == <<"x">>

E == <<>>

\* cell.strip() is truthy
CellNonEmpty(c) == Strip(c) # <<>>

TableCells(t) == FlattenSeq(t)

HasNoneCell(t) == \E i \in 1..Len(TableCells(t)) : TableCells(t)[i] = NoneCell

\* sum(len(row) for row in table)
TotalCells(t) == Len(TableCells(t))

\* sum(1 for row in table for cell in row if cell.strip())
NonEmptyCells(t) ==
    Cardinality({i \in 1..Len(TableCells(t)) : CellNonEmpty(TableCells(t)[i])})

ColCounts(t) == {Len(t[i]) : i \in 1..Len(t)}

MaxCols(t) == SetMax(ColCounts(t))

MinCols(t) == SetMin(ColCounts(t))

\* the checks all three validate_table share: at least 2 rows, and a first
\* row of at least 2 columns
HasMinimalShape(t) == Len(t) >= 2 /\ Len(t[1]) >= 2

\* PdfplumberWrapper.validate_table, for a table of string cells:
\* min_cols >= max_cols * 0.5 and density >= 0.1
PdfplumberValidate(t) ==
    /\ HasMinimalShape(t)
    /\ ~(2 * MinCols(t) < MaxCols(t))
    /\ ~(TotalCells(t) = 0 \/ 10 * NonEmptyCells(t) < TotalCells(t))

\* CamelotWrapper.validate_table: at most 2 distinct column counts and
\* density >= 0.2
CamelotValidate(t) ==
    /\ HasMinimalShape(t)
    /\ ~(Cardinality(ColCounts(t)) > 2)
    /\ ~(TotalCells(t) = 0 \/ 5 * NonEmptyCells(t) < TotalCells(t))

\* TabulaWrapper.validate_table: at least half of the rows have a column
\* count >= max_cols * 0.3, and density >= 0.05
TabulaValidate(t) ==
    /\ HasMinimalShape(t)
    /\ ~(2 * Cardinality({i \in 1..Len(t) : 10 * Len(t[i]) >= 3 * MaxCols(t)}) < Len(t))
    /\ ~(TotalCells(t) = 0 \/ 20 * NonEmptyCells(t) < TotalCells(t))

\* validate_table of the wrapper named v
ValidateTable(v, t) ==
    CASE v = "pdfplumber" -> PdfplumberValidate(t)
      [] v = "camelot"    -> CamelotValidate(t)
      [] v = "tabula"     -> TabulaValidate(t)

\* validate_table raises (AttributeError of cell.strip()) when it reaches
\* its density count on a table with a non-string cell
ValidateRaises(v, t) ==
    /\ HasNoneCell(t)
    /\ HasMinimalShape(t)
    /\ CASE v = "pdfplumber" -> ~(2 * MinCols(t) < MaxCols(t))
         [] v = "camelot"    -> ~(Cardinality(ColCounts(t)) > 2)
         [] v = "tabula"     ->
              ~(2 * Cardinality({i \in 1..Len(t) : 10 * Len(t[i]) >= 3 * MaxCols(t)}) < Len(t))

(***************************************************************************)
(* table_normalizer.py: analyze_table_structure, _estimate_table_quality   *)
(***************************************************************************)
\* TableExtractor.min_quality_score (constructor default 0.3), in 1/1000
MinQualityPermille == 300

\* analysis_result["valid"]
AnalysisValid(t) == t # <<>> /\ Len(t) >= 2

\* analyze_table_structure raises on a table with a non-string cell
AnalysisRaises(t) == AnalysisValid(t) /\ HasNoneCell(t)

\* _estimate_table_quality as the exact fraction num/den:
\*   structure_score = min(1, (num_rows - 1) * num_cols / 20)
\*   content_score   = density * 0.8 + consistency * 0.2
\*   quality         = structure_score * 0.3 + content_score * 0.7
\* with density = non_empty/total and consistency = min_cols/max_cols
\* (each 0 when its denominator is 0).
EstimateTableQuality(t) ==
    LET total == TotalCells(t)
        maxc  == MaxCols(t)
        dT    == IF total > 0 THEN total ELSE 1
        dC    == IF maxc > 0 THEN maxc ELSE 1
        sNum  == Min2(20, (Len(t) - 1) * maxc)
        dNum  == IF total > 0 THEN NonEmptyCells(t) ELSE 0
        cNum  == IF maxc > 0 THEN MinCols(t) ELSE 0
    IN  [num |-> 30 * sNum * dT * dC + 56 * 20 * dNum * dC + 14 * 20 * cNum * dT,
         den |-> 100 * 20 * dT * dC]

\* analysis_result.get("estimated_quality", 0.0)
QualityScore(t) == IF AnalysisValid(t) THEN EstimateTableQuality(t) ELSE [num |-> 0, den |-> 1]

\* quality_score >= self.min_quality_score
MeetsMinQuality(q) == q.num * 1000 >= MinQualityPermille * q.den

\* TableAccepted without the quality threshold
TableAcceptedNoThreshold(t) == AnalysisValid(t)

\* analysis_result["valid"] and quality_score >= self.min_quality_score
TableAccepted(t) == AnalysisValid(t) /\ MeetsMinQuality(QualityScore(t))

(***************************************************************************)
(* table_extractor.py: the backend chains                                  *)
(***************************************************************************)
\* any(validate_table(t) for t in tables): "true", "false", or "raise" when
\* a validate_table call raises before a table validated
RECURSIVE AnyValid(_, _)
AnyValid(v, tables) ==
    IF tables = <<>> THEN "false"
    ELSE IF ValidateRaises(v, Head(tables)) THEN "raise"
    ELSE IF ValidateTable(v, Head(tables)) THEN "true"
    ELSE AnyValid(v, Tail(tables))

\* [t for t in tables if validate_table(t)], for tables none of which raises
RECURSIVE ValidTables(_, _)
ValidTables(v, tables) ==
    IF tables = <<>> THEN <<>>
    ELSE IF ValidateTable(v, Head(tables))
         THEN <<Head(tables)>> \o ValidTables(v, Tail(tables))
         ELSE ValidTables(v, Tail(tables))

\* the comprehension calls validate_table on every table
ComprehensionRaises(v, tables) == \E i \in 1..Len(tables) : ValidateRaises(v, tables[i])

\* BackendAttempt without its try/except: the exception leaves the chain
BackendAttemptUnguarded(o, v) ==
    IF o.raised
      THEN [won |-> FALSE, tables |-> <<>>, exc |-> TRUE, did |-> "raised"]
    ELSE IF o.tables = <<>> \/ AnyValid(v, o.tables) = "false"
      THEN [won |-> FALSE, tables |-> <<>>, exc |-> FALSE, did |-> "none"]
    ELSE IF AnyValid(v, o.tables) = "raise" \/ ComprehensionRaises(v, o.tables)
      THEN [won |-> FALSE, tables |-> <<>>, exc |-> TRUE, did |-> "raised"]
    ELSE [won |-> TRUE, tables |-> ValidTables(v, o.tables), exc |-> FALSE, did |-> "won"]

\* One try/except block of a chain: the backend is called (outcome o: it
\* raised, or returned o.tables) and its tables are validated by the
\* wrapper v.  exc: an exception leaves the block (never: except Exception).
\* did: "won", "none" (no validated table) or "raised" (caught and logged).
BackendAttempt(o, v) ==
    IF o.raised
      THEN [won |-> FALSE, tables |-> <<>>, exc |-> FALSE, did |-> "raised"]
    ELSE IF o.tables = <<>> \/ AnyValid(v, o.tables) = "false"
      THEN [won |-> FALSE, tables |-> <<>>, exc |-> FALSE, did |-> "none"]
    ELSE IF AnyValid(v, o.tables) = "raise" \/ ComprehensionRaises(v, o.tables)
      THEN [won |-> FALSE, tables |-> <<>>, exc |-> FALSE, did |-> "raised"]
    ELSE [won |-> TRUE, tables |-> ValidTables(v, o.tables), exc |-> FALSE, did |-> "won"]

\* A chain of two backends: (success, tables, method), the calls made, and
\* exc when an exception leaves the chain.
Chain(name1, v1, o1, name2, v2, o2) ==
    LET a1 == BackendAttempt(o1, v1)
        a2 == BackendAttempt(o2, v2)
        c1 == [name |-> name1, did |-> a1.did, outcome |-> o1]
        c2 == [name |-> name2, did |-> a2.did, outcome |-> o2]
    IN  IF a1.exc
          THEN [success |-> FALSE, tables |-> <<>>, method |-> "none",
                exc |-> TRUE, calls |-> <<c1>>]
        ELSE IF a1.won
          THEN [success |-> TRUE, tables |-> a1.tables, method |-> name1,
                exc |-> FALSE, calls |-> <<c1>>]
        ELSE IF a2.exc
          THEN [success |-> FALSE, tables |-> <<>>, method |-> "none",
                exc |-> TRUE, calls |-> <<c1, c2>>]
        ELSE IF a2.won
          THEN [success |-> TRUE, tables |-> a2.tables, method |-> name2,
                exc |-> FALSE, calls |-> <<c1, c2>>]
        ELSE [success |-> FALSE, tables |-> <<>>, method |-> "none",
              exc |-> FALSE, calls |-> <<c1, c2>>]

\* ExtractRuledTables with the two backends in the other order
ExtractRuledLatticeFirst(o1, o2) ==
    Chain("camelot-lattice", "camelot", o1, "pdfplumber", "pdfplumber", o2)

\* _extract_ruled_tables: pdfplumber, then camelot lattice
ExtractRuledTables(o1, o2) ==
    Chain("pdfplumber", "pdfplumber", o1, "camelot-lattice", "camelot", o2)

\* _extract_unruled_tables: camelot stream, then tabula
ExtractUnruledTables(o1, o2) ==
    Chain("camelot-stream", "camelot", o1, "tabula", "tabula", o2)

ExtractByStrategy(strategy, o1, o2) ==
    IF strategy = "ruled" THEN ExtractRuledTables(o1, o2) ELSE ExtractUnruledTables(o1, o2)

OtherStrategy(strategy) == IF strategy = "ruled" THEN "unruled" ELSE "ruled"

(***************************************************************************)
(* table_extractor.py: _analyze_page_structure                             *)
(***************************************************************************)
\* PageAnalysis(page_num=...): the dataclass defaults.  confidence in 1/1000.
DefaultAnalysis(p) ==
    [page_num |-> p, has_lines |-> FALSE, line_count |-> 0,
     has_text_columns |-> FALSE, recommended_strategy |-> "ruled", confidence |-> 0]

NoAnalysis == [page_num |-> -1, has_lines |-> FALSE, line_count |-> 0,
               has_text_columns |-> FALSE, recommended_strategy |-> "none", confidence |-> 0]

\* What fitz shows of the page: opening or reading it raises; the page
\* number is out of range; or line_count drawing items and column-aligned
\* text or not.
PageFacts ==
    {[raises |-> TRUE, in_range |-> TRUE, line_count |-> 0, has_text_columns |-> FALSE],
     [raises |-> FALSE, in_range |-> FALSE, line_count |-> 0, has_text_columns |-> FALSE],
     [raises |-> FALSE, in_range |-> TRUE, line_count |-> 11, has_text_columns |-> FALSE],
     [raises |-> FALSE, in_range |-> TRUE, line_count |-> 60, has_text_columns |-> TRUE],
     [raises |-> FALSE, in_range |-> TRUE, line_count |-> 0, has_text_columns |-> TRUE],
     [raises |-> FALSE, in_range |-> TRUE, line_count |-> 0, has_text_columns |-> FALSE]}

\* The analysis of an uncached page
ComputeAnalysis(p, f) ==
    IF f.raises
      THEN [DefaultAnalysis(p) EXCEPT !.recommended_strategy = "ruled", !.confidence = 100]
    ELSE LET has_lines == f.line_count > 10
             a == [DefaultAnalysis(p) EXCEPT !.line_count = f.line_count,
                                             !.has_lines = has_lines,
                                             !.has_text_columns = f.has_text_columns]
         IN  IF has_lines
               THEN [a EXCEPT !.recommended_strategy = "ruled",
                              !.confidence = Min2(900, (f.line_count * 1000) \div 50)]
             ELSE IF f.has_text_columns
               THEN [a EXCEPT !.recommended_strategy = "unruled", !.confidence = 700]
             ELSE [a EXCEPT !.recommended_strategy = "ruled", !.confidence = 300]

\* _analyze_page_structure(page_num): the analysis returned and the cache
\* afterwards.  A cached page is answered from the cache; an out-of-range
\* page returns the default analysis from inside the with block, before the
\* line that fills the cache.
AnalyzePageStructure(cache, p, f) ==
    IF cache[p] # NoAnalysis
      THEN [analysis |-> cache[p], cache |-> cache]
    ELSE IF ~f.raises /\ ~f.in_range
      THEN [analysis |-> DefaultAnalysis(p), cache |-> cache]
    ELSE [analysis |-> ComputeAnalysis(p, f),
          cache    |-> [cache EXCEPT ![p] = ComputeAnalysis(p, f)]]

(***************************************************************************)
(* table_extractor.py: extract_tables_from_page                            *)
(***************************************************************************)
Pages == {0, 1}

\* a full 3x2 table
Full3x2 == <<<<X, X>>, <<X, X>>, <<X, X>>>>

\* a ragged, sparse table every validate_table accepts: quality 0.25
Sparse == <<<<X, E>>, <<E, E, E>>>>

\* one row only: no validate_table accepts it
OneRow == <<<<X, X>>>>

\* a table with a cell that is not a string
WithNone == <<<<X, X>>, <<NoneCell, X>>>>

\* a 2x2 table with one empty cell: quality 0.59
Partial2x2 == <<<<X, X>>, <<X, E>>>>

TableLists ==
    {<<>>, <<Full3x2>>, <<Sparse>>, <<OneRow>>, <<WithNone>>,
     <<Partial2x2, Sparse, Full3x2>>}

\* What a backend does when called for the page: it raises, or returns tables
BackendOutcomes ==
    {[raised |-> TRUE, tables |-> <<>>]}
    \cup {[raised |-> FALSE, tables |-> ts] : ts \in TableLists}

\* TableExtractionResult(page_num=page_num): the dataclass defaults
NewResult(p) ==
    [page_num |-> p, tables |-> <<>>, method_used |-> "", quality_scores |-> <<>>,
     success |-> FALSE, error_message |-> ""]

NoChain == [success |-> FALSE, tables |-> <<>>, method |-> "none"]

WithPhase(calls, phase) ==
    [i \in 1..Len(calls) |->
        [name |-> calls[i].name, did |-> calls[i].did, outcome |-> calls[i].outcome,
         phase |-> phase]]

\* FallbackMethod without the prefix
FallbackMethodUnprefixed(method) == method

\* method = f"fallback-{method}"
FallbackMethod(method) == "fallback-" \o method

\* Step 1: the page analysis, with its own try/except
Analyze ==
    /\ te_pc = "analyze"
    /\ IF te_cfg.enable_pre_analysis
       THEN \E f \in PageFacts :
              LET r == AnalyzePageStructure(te_cache, te_page, f)
              IN  /\ te_analysis' = r.analysis
                  /\ te_cache' = r.cache
       ELSE /\ te_analysis' = DefaultAnalysis(te_page)
            /\ te_cache' = te_cache
    /\ te_pc' = "primary"
    /\ UNCHANGED <<te_cfg, te_page, te_chain, te_calls, te_faulty, te_result>>
    /\ UNCHANGED <<sbVars, ccVars>>
    /\ UNCHANGED <<fnVars, tcVars, exVars>>

\* NeedsFallback with success taken from the quality threshold of step 4:
\* the primary chain counts as failed unless one of its tables is accepted
NeedsFallbackOnLowQuality(c, cfg) ==
    /\ ~(~c.exc /\ c.success
          /\ \E i \in 1..Len(c.tables) :
                 ~AnalysisRaises(c.tables[i]) /\ TableAccepted(c.tables[i]))
    /\ cfg.fallback_on_failure

\* if not success and self.fallback_on_failure, after the primary chain c:
\* success is False when the chain raised, else what the chain returned
NeedsFallback(c, cfg) == ~(~c.exc /\ c.success) /\ cfg.fallback_on_failure

\* Step 2: the chain of the recommended strategy; an exception leaving the
\* chain is caught: success = False, tables and method keep [] and "none"
RunPrimary ==
    /\ te_pc = "primary"
    /\ \E o1, o2 \in BackendOutcomes :
         LET c == ExtractByStrategy(te_analysis.recommended_strategy, o1, o2)
         IN  /\ te_chain' = IF c.exc THEN NoChain
                            ELSE [success |-> c.success, tables |-> c.tables,
                                  method |-> c.method]
             /\ te_calls' = te_calls \o WithPhase(c.calls, "primary")
             /\ te_pc' = IF NeedsFallback(c, te_cfg) THEN "fallback" ELSE "score"
    /\ UNCHANGED <<te_cfg, te_page, te_cache, te_analysis, te_faulty, te_result>>
    /\ UNCHANGED <<sbVars, ccVars>>
    /\ UNCHANGED <<fnVars, tcVars, exVars>>

\* Step 3: the chain of the other strategy, its method prefixed "fallback-"
RunFallback ==
    /\ te_pc = "fallback"
    /\ \E o1, o2 \in BackendOutcomes :
         LET c == ExtractByStrategy(OtherStrategy(te_analysis.recommended_strategy), o1, o2)
         IN  /\ te_chain' = IF c.exc THEN [te_chain EXCEPT !.success = FALSE]
                            ELSE [success |-> c.success, tables |-> c.tables,
                                  method |-> FallbackMethod(c.method)]
             /\ te_calls' = te_calls \o WithPhase(c.calls, "fallback")
             /\ te_pc' = "score"
    /\ UNCHANGED <<te_cfg, te_page, te_cache, te_analysis, te_faulty, te_result>>
    /\ UNCHANGED <<sbVars, ccVars>>
    /\ UNCHANGED <<fnVars, tcVars, exVars>>

\* The loop of step 4 from table i on: a table whose analysis raises (it has
\* a non-string cell, or i is in faulty) is skipped, the others are kept
\* when accepted; scores are appended with them.
RECURSIVE ValidateAndScore(_, _, _)
ValidateAndScore(tables, faulty, i) ==
    IF i > Len(tables) THEN [tables |-> <<>>, scores |-> <<>>]
    ELSE LET rest == ValidateAndScore(tables, faulty, i + 1)
         IN  IF i \notin faulty /\ ~AnalysisRaises(tables[i]) /\ TableAccepted(tables[i])
             THEN [tables |-> <<tables[i]>> \o rest.tables,
                   scores |-> <<QualityScore(tables[i])>> \o rest.scores]
             ELSE rest

\* len(validated_tables) > 0 with the bound off by one
SuccessOfSeveral(validated) == Len(validated) > 1

\* result.success = len(validated_tables) > 0
SuccessOf(validated) == Len(validated) > 0

\* Step 4 and the return.  faulty: the candidate tables on which
\* analyze_table_structure raises.
ScoreTables ==
    /\ te_pc = "score"
    /\ IF te_chain.success /\ te_chain.tables # <<>>
       THEN \E faulty \in SUBSET (1..Len(te_chain.tables)) :
              LET v == ValidateAndScore(te_chain.tables, faulty, 1)
              IN  /\ te_faulty' = faulty
                  /\ te_result' = [te_result EXCEPT !.tables = v.tables,
                                                    !.quality_scores = v.scores,
                                                    !.method_used = te_chain.method,
                                                    !.success = SuccessOf(v.tables)]
       ELSE /\ te_faulty' = {}
            /\ te_result' = [te_result EXCEPT
                                !.success = FALSE,
                                !.error_message = "No tables extracted using any method"]
    /\ te_pc' = "done"
    /\ UNCHANGED <<te_cfg, te_page, te_cache, te_analysis, te_chain, te_calls>>
    /\ UNCHANGED <<sbVars, ccVars>>
    /\ UNCHANGED <<fnVars, tcVars, exVars>>

(***************************************************************************)
(* SpecTables: one call of extract_tables_from_page                        *)
(***************************************************************************)
IdleTe ==
    /\ te_pc = "idle"
    /\ te_cfg = [enable_pre_analysis |-> TRUE, fallback_on_failure |-> TRUE]
    /\ te_page = 0
    /\ te_cache = [p \in Pages |-> NoAnalysis]
    /\ te_analysis = NoAnalysis
    /\ te_chain = NoChain
    /\ te_calls = <<>>
    /\ te_faulty = {}
    /\ te_result = NewResult(0)

\* TableExtractor(...) constructed, extract_tables_from_page(page) entered
StartExtract ==
    /\ te_pc = "analyze"
    /\ te_cfg \in [enable_pre_analysis : BOOLEAN, fallback_on_failure : BOOLEAN]
    /\ te_page \in Pages
    /\ te_cache = [p \in Pages |-> NoAnalysis]
    /\ te_analysis = NoAnalysis
    /\ te_chain = NoChain
    /\ te_calls = <<>>
    /\ te_faulty = {}
    /\ te_result = NewResult(te_page)

InitTables == IdleSb /\ IdleCc /\ StartExtract /\ IdleRest

NextTables == Analyze \/ RunPrimary \/ RunFallback \/ ScoreTables

SpecTables == InitTables /\ [][NextTables]_vars

InitStructure == StartBuild /\ IdleCc /\ IdleTe /\ IdleRest

NextStructure == ScanStreamBlock \/ ReturnStreamDoc

SpecStructure == InitStructure /\ [][NextStructure]_vars


(***************************************************************************)
(* content_classifier.py: ContentClassifier                                *)
(***************************************************************************)
\* A TextSpan: its text, its FontInfo (font_name, font_size, is_bold,
\* is_italic) and its bbox (x0, y0, y1); sizes and coordinates in points.
MkSpan(text, font, size, bold, y0) ==
    [text |-> text, font |-> font, size |-> size, bold |-> bold, italic |-> FALSE,
     x0 |-> 72, y0 |-> y0, y1 |-> y0 + size]

\* span.text.strip() is truthy
NonEmptySpan(sp) == Strip(sp.text) # <<>>

\* the indices of the spans with non-empty text, in page order
RECURSIVE NonEmptyFrom(_, _)
NonEmptyFrom(spans, i) ==
    IF i > Len(spans) THEN <<>>
    ELSE IF NonEmptySpan(spans[i]) THEN <<i>> \o NonEmptyFrom(spans, i + 1)
    ELSE NonEmptyFrom(spans, i + 1)

\* Counter(vals).most_common(1)[0][0]: the most frequent value, the first
\* one inserted among the most frequent
MostCommon(vals) ==
    LET Count(v) == Cardinality({i \in 1..Len(vals) : vals[i] = v})
        best     == SetMax({Count(vals[i]) : i \in 1..Len(vals)})
        first    == SetMin({i \in 1..Len(vals) : Count(vals[i]) = best})
    IN  vals[first]

\* _establish_baseline_style
EstablishBaselineStyle(spans) ==
    LET ne == NonEmptyFrom(spans, 1)
    IN  IF ne = <<>> THEN DefaultBaseline
        ELSE [size   |-> MostCommon([k \in 1..Len(ne) |-> spans[ne[k]].size]),
              font   |-> MostCommon([k \in 1..Len(ne) |-> spans[ne[k]].font]),
              bold   |-> MostCommon([k \in 1..Len(ne) |-> spans[ne[k]].bold]),
              italic |-> MostCommon([k \in 1..Len(ne) |-> spans[ne[k]].italic])]

\* size_ratio >= num/den, where size_ratio = font_size / baseline['size'] if
\* baseline['size'] > 0 else 1.0
RatioAtLeast(size, bsize, num, den) ==
    IF bsize > 0 THEN den * size >= num * bsize ELSE den >= num

\* _is_header without the size criteria: bold against a baseline that is not
IsHeaderBoldOnly(sp, bl) == sp.bold /\ ~bl.bold

\* _is_header
IsHeader(sp, bl) ==
    LET is_significantly_larger   == RatioAtLeast(sp.size, bl.size, 12, 10)
        is_bold_when_baseline_not == sp.bold /\ ~bl.bold
        is_much_larger            == RatioAtLeast(sp.size, bl.size, 15, 10)
        is_short                  == WordCount(Strip(sp.text)) <= 3
        is_caps                   == IsUpper(Strip(sp.text))
    IN  IF is_much_larger THEN TRUE
        ELSE IF is_significantly_larger \/ is_bold_when_baseline_not
          THEN IF is_short \/ is_caps \/ is_bold_when_baseline_not THEN TRUE
               ELSE IF is_significantly_larger
                       /\ ~RatioAtLeast(sp.size, bl.size, 14, 10)
                 THEN is_bold_when_baseline_not \/ is_caps
               ELSE IF RatioAtLeast(sp.size, bl.size, 14, 10) THEN TRUE
               ELSE FALSE
        ELSE FALSE

\* _get_header_level
GetHeaderLevel(sp, bl) ==
    IF RatioAtLeast(sp.size, bl.size, 20, 10) THEN 1
    ELSE IF RatioAtLeast(sp.size, bl.size, 17, 10) THEN 2
    ELSE IF RatioAtLeast(sp.size, bl.size, 14, 10) THEN 3
    ELSE IF RatioAtLeast(sp.size, bl.size, 12, 10) THEN 4
    ELSE 5

\* The characters of the list patterns; a character outside ASCII is written
\* as its code point.
UnicodeBullets == {"U+2022", "U+00B7", "U+25AA", "U+25AB", "U+2023", "U+2043"}

AsciiBullets == {"*", "+", "-"}

ArrowBullets == {"U+25B6", "U+25BA", "U+25B7", "U+25B8"}

RomanLower == {"i", "v", "x", "l", "c", "d", "m"}

RomanUpper == {"I", "V", "X", "L", "C", "D", "M"}

\* the length of the longest prefix of t made of characters of S
RECURSIVE RunLen(_, _)
RunLen(t, S) == IF t # <<>> /\ Head(t) \in S THEN 1 + RunLen(Tail(t), S) ELSE 0

\* ^[S]\s+
MatchBullet(t, S) == Len(t) >= 2 /\ t[1] \in S /\ t[2] \in WhitespaceChars

\* ^[S]+<close>\s+
MatchRun(t, S, close) ==
    LET n == RunLen(t, S)
    IN  n >= 1 /\ Len(t) >= n + 2 /\ t[n + 1] = close /\ t[n + 2] \in WhitespaceChars

\* ^[S]<close>\s+
MatchOne(t, S, close) ==
    Len(t) >= 3 /\ t[1] \in S /\ t[2] = close /\ t[3] \in WhitespaceChars

\* _is_list_item: the seventeen patterns, on the stripped text
IsListItem(text) ==
    LET t == Strip(text)
    IN  /\ t # <<>>
        /\ \/ MatchBullet(t, UnicodeBullets)
           \/ MatchBullet(t, AsciiBullets)
           \/ MatchBullet(t, ArrowBullets)
           \/ MatchRun(t, DigitChars, ".")
           \/ MatchRun(t, DigitChars, ")")
           \/ (t[1] = "(" /\ MatchRun(Tail(t), DigitChars, ")"))
           \/ (t[1] = "[" /\ MatchRun(Tail(t), DigitChars, "]"))
           \/ MatchOne(t, UpperChars \cup LowerChars, ".")
           \/ MatchOne(t, UpperChars \cup LowerChars, ")")
           \/ (t[1] = "(" /\ MatchOne(Tail(t), UpperChars \cup LowerChars, ")"))
           \/ (t[1] = "[" /\ MatchOne(Tail(t), UpperChars \cup LowerChars, "]"))
           \/ MatchRun(t, RomanLower, ".")
           \/ MatchRun(t, RomanUpper, ".")
           \/ MatchRun(t, RomanLower, ")")
           \/ MatchRun(t, RomanUpper, ")")
           \/ (t[1] = "(" /\ MatchRun(Tail(t), RomanLower, ")"))
           \/ (t[1] = "(" /\ MatchRun(Tail(t), RomanUpper, ")"))

\* _determine_content_type emitting the levelled type HEADER_1..HEADER_5 of
\* _get_header_level in place of the generic HEADER
DetermineContentTypeLevelled(sp, bl) ==
    IF IsListItem(sp.text) THEN "list"
    ELSE IF IsHeader(sp, bl)
      THEN CASE GetHeaderLevel(sp, bl) = 1 -> "header_1"
             [] GetHeaderLevel(sp, bl) = 2 -> "header_2"
             [] GetHeaderLevel(sp, bl) = 3 -> "header_3"
             [] GetHeaderLevel(sp, bl) = 4 -> "header_4"
             [] OTHER -> "header_5"
    ELSE "paragraph"

\* _determine_content_type, and the first pass of classify_page_content:
\* the list check comes first
DetermineContentType(sp, bl) ==
    IF IsListItem(sp.text) THEN "list"
    ELSE IF IsHeader(sp, bl) THEN "header"
    ELSE "paragraph"

\* should_group with list items grouping like paragraphs
ShouldGroupUnlessHeader(ct) == ct # "header"

\* span_info['should_group'] as the first pass sets it
ShouldGroup(ct) == ct = "paragraph"

Abs(n) == IF n >= 0 THEN n ELSE -n

\* _fonts_similar(font1, font2)
FontsSimilar(f1, f2) ==
    /\ f1.font = f2.font
    /\ IF f2.size > 0
       THEN ~(10 * f1.size < 9 * f2.size \/ 10 * f1.size > 11 * f2.size)
       ELSE TRUE
    /\ f1.bold = f2.bold /\ f1.italic = f2.italic

\* _should_group_with_previous: avg_font_size = (cur.size + prev.size) / 2,
\* distance <= 1.5 * avg, similar fonts, left margins within 0.5 * avg
ShouldGroupWithPrevious(cur, prev) ==
    /\ ~(4 * Abs(prev.y1 - cur.y0) > 3 * (cur.size + prev.size))
    /\ FontsSimilar(cur, prev)
    /\ ~(4 * Abs(cur.x0 - prev.x0) > cur.size + prev.size)

\* the span indices idxs as the page holds them, without all_spans_info.sort
InPageOrder(spans, idxs) ==
    [k \in 1..Cardinality(idxs) |->
        CHOOSE i \in idxs : Cardinality({j \in idxs : j < i}) = k - 1]

\* The stable sort of all_spans_info by (y_position, span.bbox.x0): the
\* span indices idxs in reading order.
RECURSIVE SortByPosition(_, _)
SortByPosition(spans, idxs) ==
    IF idxs = {} THEN <<>>
    ELSE LET Before(i, j) ==
                 \/ spans[i].y0 < spans[j].y0
                 \/ spans[i].y0 = spans[j].y0 /\ spans[i].x0 < spans[j].x0
                 \/ spans[i].y0 = spans[j].y0 /\ spans[i].x0 = spans[j].x0 /\ i <= j
             m == CHOOSE i \in idxs : \A j \in idxs : Before(i, j)
         IN  <<m>> \o SortByPosition(spans, idxs \ {m})

\* _group_paragraph_spans from position k of the sorted spans on, current
\* being the open paragraph group: groups of span indices
RECURSIVE GroupFrom(_, _, _, _, _)
GroupFrom(spans, bl, order, k, current) ==
    IF k > Len(order)
      THEN IF current # <<>> THEN <<current>> ELSE <<>>
    ELSE LET sp == spans[order[k]]
         IN  IF ~ShouldGroup(DetermineContentType(sp, bl))
               THEN (IF current # <<>> THEN <<current>> ELSE <<>>)
                    \o <<<<order[k]>>>>
                    \o GroupFrom(spans, bl, order, k + 1, <<>>)
             ELSE IF current # <<>>
                     /\ ShouldGroupWithPrevious(sp, spans[current[Len(current)]])
               THEN GroupFrom(spans, bl, order, k + 1, Append(current, order[k]))
             ELSE (IF current # <<>> THEN <<current>> ELSE <<>>)
                  \o GroupFrom(spans, bl, order, k + 1, <<order[k]>>)

GroupParagraphSpans(spans, bl, order) == GroupFrom(spans, bl, order, 1, <<>>)

\* _create_text_block_from_group: a single span goes through
\* _classify_text_span; several are merged under the first one's type, font
\* and position.  The block is kept with the bbox origin it is sorted by and
\* with metadata['header_level'] (0: not set).
CreateTextBlockFromGroup(spans, bl, group) ==
    LET first == spans[group[1]]
        font  == [size |-> first.size, bold |-> first.bold, present |-> TRUE]
    IN  IF Len(group) = 1
        THEN [block |-> MkBlock("TextBlock", DetermineContentType(first, bl),
                                Strip(first.text), font, group),
              y0 |-> first.y0, x0 |-> first.x0,
              header_level |-> IF DetermineContentType(first, bl) = "header"
                               THEN GetHeaderLevel(first, bl) ELSE 0]
        ELSE [block |-> MkBlock("TextBlock", DetermineContentType(first, bl),
                                JoinSpace([k \in 1..Len(group) |-> Strip(spans[group[k]].text)]),
                                font, group),
              y0 |-> SetMin({spans[group[k]].y0 : k \in 1..Len(group)}),
              x0 |-> SetMin({spans[group[k]].x0 : k \in 1..Len(group)}),
              header_level |-> 0]

\* classify_page_content, once the baseline bl is established
ClassifyPageContent(spans, bl) ==
    LET order  == SortByPosition(spans, Range(NonEmptyFrom(spans, 1)))
        groups == GroupParagraphSpans(spans, bl, order)
    IN  [g \in 1..Len(groups) |-> CreateTextBlockFromGroup(spans, bl, groups[g])]

\* _extract_content_blocks for a page of classified text blocks, without
\* tables and images: the blocks in the stable order of (bbox.y0, bbox.x0)
ExtractContentBlocks(blocks) ==
    LET order == SortByPosition(blocks, 1..Len(blocks))
    IN  [k \in 1..Len(order) |-> blocks[order[k]].block]

(***************************************************************************)
(* SpecPipeline: process_with_classifier on one page of text spans         *)
(***************************************************************************)
\* most spans on the page
MaxSpans == 2

TextFirstItem ==
    <<"1", ".", " ", "F", "i", "r", "s", "t", " ", "i", "t", "e", "m">>

TextIntroduction ==
    <<"I", "n", "t", "r", "o", "d", "u", "c", "t", "i", "o", "n">>

TextBody ==
    <<"T", "h", "i", "s", " ", "i", "s", " ", "t", "h", "e", " ", "b",
      "o", "d", "y", " ", "t", "e", "x", "t", ".">>

TextBlank ==
    <<" ", " ">>

PageTexts == {TextFirstItem, TextIntroduction, TextBody, TextBlank}

\* font name, size and boldness of the spans
PageStyles ==
    {<<"Arial", 20, TRUE>>, <<"Arial", 12, FALSE>>, <<"Arial", 18, FALSE>>,
     <<"Arial", 12, TRUE>>, <<"Times", 15, FALSE>>}

\* the y0 of the spans: a 20pt span at 100 ends 2pt above 122
PageYs == {100, 122, 140}

PageSpans ==
    {MkSpan(t, st[1], st[2], st[3], y) : t \in PageTexts, st \in PageStyles, y \in PageYs}

\* process_with_classifier(pages=[page], classifier) is entered
StartPipeline ==
    /\ cc_pc = "start"
    /\ \E n \in 1..MaxSpans : page_spans \in [1..n -> PageSpans]
    /\ baseline = DefaultBaseline
    /\ classified = <<>>
    /\ pending = <<>>

\* classifier.classify_page_content(page); page.text_blocks = classified_blocks
ClassifyPage ==
    /\ cc_pc = "start"
    /\ baseline' = EstablishBaselineStyle(page_spans)
    /\ classified' = ClassifyPageContent(page_spans, EstablishBaselineStyle(page_spans))
    /\ cc_pc' = "classified"
    /\ UNCHANGED <<page_spans, pending>>
    /\ UNCHANGED <<sbVars, teVars>>
    /\ UNCHANGED <<fnVars, tcVars, exVars>>

\* build_structure(pages) up to its loop: the blocks of the page are
\* collected in reading order
CollectBlocks ==
    /\ cc_pc = "classified"
    /\ sb_pc = "idle"
    /\ pending' = ExtractContentBlocks(classified)
    /\ cc_pc' = "built"
    /\ sb_pc' = "scanning"
    /\ UNCHANGED <<page_spans, baseline, classified>>
    /\ UNCHANGED <<all_blocks, sections, stack, level_map, doc_sections>>
    /\ UNCHANGED teVars
    /\ UNCHANGED <<fnVars, tcVars, exVars>>

\* one iteration of the loop of build_structure
ScanPendingBlock ==
    /\ pending # <<>>
    /\ ScanBlock(Head(pending))
    /\ pending' = Tail(pending)
    /\ UNCHANGED <<cc_pc, page_spans, baseline, classified>>
    /\ UNCHANGED teVars
    /\ UNCHANGED <<fnVars, tcVars, exVars>>

\* the loop is over: return doc
ReturnPipelineDoc ==
    /\ pending = <<>>
    /\ ReturnDoc
    /\ UNCHANGED <<ccVars, teVars>>
    /\ UNCHANGED <<fnVars, tcVars, exVars>>

InitPipeline == StartPipeline /\ IdleSb /\ IdleTe /\ IdleRest

NextPipeline == ClassifyPage \/ CollectBlocks \/ ScanPendingBlock \/ ReturnPipelineDoc

SpecPipeline == InitPipeline /\ [][NextPipeline]_vars

(***************************************************************************)
(* Properties of build_structure and HeaderStack (SpecStructure)           *)
(***************************************************************************)
\* the places (section, position) of block i in the content of the sections
\* reachable from the document
PlacesInDocument(i) ==
    {<<k, j>> \in (1..Len(get_all_sections)) \X (1..Len(all_blocks)) :
        /\ j <= Len(sections[get_all_sections[k]].content_blocks)
        /\ sections[get_all_sections[k]].content_blocks[j] = i}

\* C1: build_structure returns a document for every stream, and in it every
\* non-header block of the stream is in the content_blocks of exactly one
\* section reachable from DocumentStructure.sections.
C1_NoBlockDropped ==
    /\ sb_pc # "raised"
    /\ sb_pc = "returned" =>
         \A i \in 1..Len(all_blocks) :
            ~IsHeaderBlock(all_blocks[i]) => Cardinality(PlacesInDocument(i)) = 1

\* C2: the levels of the sections on the header stack are strictly
\* increasing from bottom to top.
C2_StackStrictlyIncreasing ==
    \A i \in 1..(Len(stack) - 1) :
        sections[stack[i]].level < sections[stack[i + 1]].level

\* C2 witness: pushes have closed sections (more sections were pushed than
\* are stacked) and at least two sections are still stacked
C2_Witness ==
    /\ Len(stack) >= 2
    /\ Len(sections) > Len(stack)
    /\ \E i \in 1..Len(all_blocks) : all_blocks[i].content_type = "header_3"

\* section j, pushed before section k, was still on the stack when k was
\* pushed: no section pushed in between had a level number <= that of j
StillOpenAt(j, k) ==
    \A m \in (j + 1)..(k - 1) : sections[m].level > sections[j].level

\* the most recently pushed still-open section of a strictly smaller level
\* number than section k; 0 if there is none
ExpectedParent(k) ==
    LET cands == {j \in 1..(k - 1) :
                     sections[j].level < sections[k].level /\ StillOpenAt(j, k)}
    IN  IF cands = {} THEN 0 ELSE SetMax(cands)

\* the sections that have section k among their subsections
ParentsOf(k) == {j \in 1..Len(sections) : k \in Range(sections[j].subsections)}

\* C19: every section is created by a push.  After a push of s the current
\* section is s, the stack holds exactly the sections no later push has
\* closed (a push closes every stacked section of a level number >= its
\* own), and s is a subsection of exactly the most recently pushed
\* still-open section of a strictly smaller level number, of none if there
\* is no such section.
C19_PushClosesAttachesAndTops ==
    /\ sections # <<>> => get_current_section(stack) = Len(sections)
    /\ Range(stack) = {j \in 1..Len(sections) : StillOpenAt(j, Len(sections) + 1)}
    /\ \A k \in 1..Len(sections) :
           ParentsOf(k) = IF ExpectedParent(k) = 0 THEN {} ELSE {ExpectedParent(k)}

\* a section was pushed after some of its siblings had been closed: its
\* parent is not the section pushed just before it
C19_Witness ==
    \E k \in 1..Len(sections) :
        /\ ExpectedParent(k) \notin {0, k - 1}
        /\ ParentsOf(k) = {ExpectedParent(k)}
        /\ get_current_section(stack) = k

(***************************************************************************)
(* Properties of extract_tables_from_page (SpecTables)                     *)
(***************************************************************************)
\* the backend calls of the primary ("primary") or the other ("fallback") chain
CallsOf(phase) == SelectSeq(te_calls, LAMBDA c : c.phase = phase)

ChainWon(phase) == \E i \in 1..Len(CallsOf(phase)) : CallsOf(phase)[i].did = "won"

\* the backend whose tables the chains handed to step 4
WinnerName ==
    IF ChainWon("fallback") THEN CallsOf("fallback")[Len(CallsOf("fallback"))].name
    ELSE IF ChainWon("primary") THEN CallsOf("primary")[Len(CallsOf("primary"))].name
    ELSE "none"

FirstBackendOf(strategy) == IF strategy = "ruled" THEN "pdfplumber" ELSE "camelot-stream"

\* C3: extract_tables_from_page returns a result for the page whatever
\* raised on the way; a backend that raised (itself or in its validate_table)
\* contributes no table, and the step after it is still attempted: the
\* second backend of its chain, then the other chain when fallback is on,
\* then the scoring, where a table whose analysis raised is only skipped.
C3_NeverRaisesCascadeContinues ==
    te_pc = "done" =>
        /\ te_result.page_num = te_page
        /\ Len(CallsOf("primary")) >= 1
        /\ \A ph \in {"primary", "fallback"} :
             (Len(CallsOf(ph)) >= 1 /\ CallsOf(ph)[1].did = "raised")
                => Len(CallsOf(ph)) = 2
        /\ (Len(CallsOf("primary")) = 2 /\ CallsOf("primary")[2].did = "raised"
              /\ te_cfg.fallback_on_failure)
                => Len(CallsOf("fallback")) >= 1
        /\ (\A i \in 1..Len(te_calls) : te_calls[i].did = "raised")
                => te_result.tables = <<>> /\ ~te_result.success
        /\ \A i \in 1..Len(te_calls) :
             (te_calls[i].did = "raised" /\ te_result.success)
                => \E j \in (i + 1)..Len(te_calls) : te_calls[j].did = "won"
        /\ Len(te_result.tables) <= Len(te_chain.tables) - Cardinality(te_faulty)

\* C3 witness: the page analysis raised, pdfplumber raised, the lattice
\* backend's validate_table raised, the analysis of a candidate table raised,
\* and a result with a table came back
C3_Witness ==
    /\ te_pc = "done"
    /\ te_analysis.confidence = 100
    /\ te_calls[1].outcome.raised
    /\ \E i \in 1..Len(te_calls) :
         te_calls[i].did = "raised" /\ ~te_calls[i].outcome.raised
    /\ te_faulty # {}
    /\ te_result.success

\* the case of C4: the strategy is ruled, pdfplumber raised, and the lattice
\* backend returned one table, which its validate_table and the quality
\* threshold accept and whose analysis did not raise
C4_Case ==
    /\ te_pc = "done"
    /\ te_analysis.recommended_strategy = "ruled"
    /\ Len(te_calls) >= 2
    /\ te_calls[1].name = "pdfplumber" /\ te_calls[1].outcome.raised
    /\ te_calls[2].name = "camelot-lattice" /\ ~te_calls[2].outcome.raised
    /\ Len(te_calls[2].outcome.tables) = 1
    /\ ~HasNoneCell(te_calls[2].outcome.tables[1])
    /\ CamelotValidate(te_calls[2].outcome.tables[1])
    /\ TableAccepted(te_calls[2].outcome.tables[1])
    /\ te_faulty = {}

\* C4: in that case the result has success = True, method_used =
\* "camelot-lattice" and an empty error_message.
C4_LatticeAfterPdfplumberRaised ==
    C4_Case =>
        /\ te_result.success
        /\ te_result.method_used = "camelot-lattice"
        /\ te_result.error_message = ""

\* C4 witness: the case, with the full 3x2 table
C4_Witness == C4_Case /\ te_calls[2].outcome.tables = <<Full3x2>>

\* C5: the other strategy's chain is run exactly when the primary chain
\* yielded no validated table and fallback_on_failure is set (never when it
\* is not set); when that chain wins, method_used is "fallback-" followed by
\* the winning backend's name.
C5_FallbackExactlyWhenNeeded ==
    te_pc = "done" =>
        /\ (Len(CallsOf("fallback")) >= 1)
              <=> (~ChainWon("primary") /\ te_cfg.fallback_on_failure)
        /\ ~te_cfg.fallback_on_failure => Len(CallsOf("fallback")) = 0
        /\ Len(CallsOf("primary")) >= 1
        /\ CallsOf("primary")[1].name = FirstBackendOf(te_analysis.recommended_strategy)
        /\ Len(CallsOf("fallback")) >= 1 =>
              CallsOf("fallback")[1].name
                 = FirstBackendOf(OtherStrategy(te_analysis.recommended_strategy))
        /\ ChainWon("fallback") =>
              te_result.method_used = "fallback-" \o WinnerName

\* C5 witness: the unruled chain won as the fallback of the ruled one
C5_Witness ==
    /\ te_pc = "done"
    /\ ChainWon("fallback")
    /\ te_result.method_used = "fallback-camelot-stream"
    /\ te_result.success

\* C6: a result without tables has success = False and a non-empty
\* error_message.
C6_NoTablesExplained ==
    (te_pc = "done" /\ te_result.tables = <<>>) =>
        (~te_result.success /\ te_result.error_message # "")

\* C7: every table of a result was analysed as valid with a quality of at
\* least min_quality_score, and quality_scores holds the score of each
\* table of the result, in the order of the tables.
C7_AcceptedTablesMeetThreshold ==
    te_pc = "done" =>
        /\ Len(te_result.quality_scores) = Len(te_result.tables)
        /\ \A i \in 1..Len(te_result.tables) :
             /\ AnalysisValid(te_result.tables[i])
             /\ MeetsMinQuality(QualityScore(te_result.tables[i]))
             /\ te_result.quality_scores[i] = QualityScore(te_result.tables[i])
             /\ MeetsMinQuality(te_result.quality_scores[i])

\* C7 witness: of three candidate tables two of different quality were
\* accepted and one was rejected
C7_Witness ==
    /\ te_pc = "done"
    /\ Len(te_chain.tables) = 3
    /\ Len(te_result.tables) = 2
    /\ te_result.quality_scores[1] # te_result.quality_scores[2]

\* the backends of a strategy's chain, in the order they are to be tried
ChainOrder(strategy) ==
    IF strategy = "ruled" THEN <<"pdfplumber", "camelot-lattice">>
    ELSE <<"camelot-stream", "tabula">>

\* the wrapper whose validate_table belongs to a backend
WrapperOf(name) ==
    IF name = "pdfplumber" THEN "pdfplumber"
    ELSE IF name = "tabula" THEN "tabula"
    ELSE "camelot"

\* the called backend returned at least one table that passes its own
\* validate_table
ReturnedValidTable(c) ==
    /\ ~c.outcome.raised
    /\ \E i \in 1..Len(c.outcome.tables) :
           /\ ~ValidateRaises(WrapperOf(c.name), c.outcome.tables[i])
           /\ ValidateTable(WrapperOf(c.name), c.outcome.tables[i])

\* the strategy whose chain a phase runs
StrategyOf(phase) ==
    IF phase = "primary" THEN te_analysis.recommended_strategy
    ELSE OtherStrategy(te_analysis.recommended_strategy)

\* C20: the calls of a chain follow the fixed order of its strategy; a
\* backend wins exactly when it returned at least one table passing its own
\* validate_table; the second backend is called exactly when the first did
\* not win; the winner's name is the chain's method.
C20_FirstValidBackendWins ==
    /\ \A ph \in {"primary", "fallback"} :
          LET calls == CallsOf(ph)
              order == ChainOrder(StrategyOf(ph))
          IN  /\ Len(calls) <= 2
              /\ \A i \in 1..Len(calls) :
                    /\ calls[i].name = order[i]
                    /\ calls[i].did = "won" <=> ReturnedValidTable(calls[i])
              /\ Len(calls) = 2 <=> (Len(calls) >= 1 /\ ~ReturnedValidTable(calls[1]))
    /\ (te_pc \in {"fallback", "score"} /\ CallsOf("fallback") = <<>>)
          => te_chain.method =
                 IF ChainWon("primary")
                 THEN CallsOf("primary")[Len(CallsOf("primary"))].name
                 ELSE "none"
    /\ (te_pc = "score" /\ ChainWon("fallback"))
          => te_chain.method =
                 "fallback-" \o CallsOf("fallback")[Len(CallsOf("fallback"))].name

\* the first backend of the unruled chain returned a valid table: it is
\* the method and tabula was not called
C20_Witness ==
    /\ te_pc = "score"
    /\ Len(CallsOf("primary")) = 1
    /\ CallsOf("primary")[1].name = "camelot-stream"
    /\ ReturnedValidTable(CallsOf("primary")[1])
    /\ te_chain.method = "camelot-stream"

(***************************************************************************)
(* Properties of classify_page_content and process_with_classifier         *)
(* (SpecPipeline)                                                          *)
(***************************************************************************)
\* the texts of the page that begin with a list marker
ListMarkerTexts == {TextFirstItem}

\* the classified blocks made of span i (and possibly others)
BlocksOfSpan(i) ==
    {g \in 1..Len(classified) : i \in Range(classified[g].block.spans)}

\* span i was emitted alone, as a block of type ct
EmittedAloneAs(i, ct) ==
    \E g \in 1..Len(classified) :
        /\ classified[g].block.spans = <<i>>
        /\ classified[g].block.content_type = ct

\* font size >= 1.5 times the baseline size
MuchLarger(i) == 10 * page_spans[i].size >= 15 * baseline.size

\* C8 as stated: every non-empty span whose font size is at least 1.5 times
\* the baseline size is classified HEADER, whatever its text.
C8_MuchLargerIsHeader ==
    cc_pc # "start" =>
        \A i \in 1..Len(page_spans) :
            (NonEmptySpan(page_spans[i]) /\ MuchLarger(i)) => EmittedAloneAs(i, "header")

\* C8 as the code has it: every non-empty span that does not begin with a
\* list marker and whose font size is at least 1.5 times the baseline size
\* is classified HEADER, whatever its text and boldness.
C8_MuchLargerNonListIsHeader ==
    cc_pc # "start" =>
        \A i \in 1..Len(page_spans) :
            (/\ NonEmptySpan(page_spans[i])
             /\ page_spans[i].text \notin ListMarkerTexts
             /\ MuchLarger(i))
                => EmittedAloneAs(i, "header")

\* C8 witness: a long sentence that is not bold, 1.5 times the baseline
\* size, came out as a header
C8_Witness ==
    /\ cc_pc # "start"
    /\ \E i \in 1..Len(page_spans) :
         /\ page_spans[i].text = TextBody
         /\ ~page_spans[i].bold
         /\ page_spans[i].size = 18 /\ baseline.size = 12
         /\ EmittedAloneAs(i, "header")

\* C9: every span whose text begins with a list marker is classified LIST
\* and is emitted as a block of its own: it is in no block with another
\* span, whatever precedes or follows it.
C9_ListItemsStandAlone ==
    cc_pc # "start" =>
        \A i \in 1..Len(page_spans) :
            page_spans[i].text \in ListMarkerTexts =>
                /\ EmittedAloneAs(i, "list")
                /\ Cardinality(BlocksOfSpan(i)) = 1

\* C9 witness: two list items of the same font on consecutive lines, which
\* as paragraphs would have been grouped, came out as two blocks
C9_Witness ==
    /\ cc_pc # "start"
    /\ Len(page_spans) = 2
    /\ page_spans[1].text \in ListMarkerTexts /\ page_spans[2].text \in ListMarkerTexts
    /\ page_spans[1].y0 < page_spans[2].y0
    /\ ShouldGroupWithPrevious(page_spans[2], page_spans[1])
    /\ Len(classified) = 2

\* the page of C10: "Introduction" in 20pt bold, and 2pt below it one
\* paragraph span in 12pt Arial, not bold
C10_Page ==
    <<MkSpan(TextIntroduction, "Arial", 20, TRUE, 100),
      MkSpan(TextBody, "Arial", 12, FALSE, 122)>>

\* C10: for that page process_with_classifier returns a document with one
\* top-level section, of level H1 and titled "Introduction", whose content
\* is one PARAGRAPH block.
C10_IntroductionSection ==
    (page_spans = C10_Page /\ sb_pc = "returned") =>
        /\ Len(doc_sections) = 1
        /\ sections[doc_sections[1]].level = 1
        /\ sections[doc_sections[1]].title = TextIntroduction
        /\ sections[doc_sections[1]].subsections = <<>>
        /\ Len(sections[doc_sections[1]].content_blocks) = 1
        /\ all_blocks[sections[doc_sections[1]].content_blocks[1]].content_type
              = "paragraph"

(***************************************************************************)
(* TextCleaner.normalize_text (text_cleaner.py)                            *)
(***************************************************************************)
\* TextCleaner.ligature_map: what str.replace puts for one character
LigatureMap(c) ==
    CASE c = "U+FB01" -> <<"f", "i">>
      [] c = "U+FB02" -> <<"f", "l">>
      [] c = "U+FB00" -> <<"f", "f">>
      [] c = "U+FB03" -> <<"f", "f", "i">>
      [] c = "U+FB04" -> <<"f", "f", "l">>
      [] c = "U+FB06" -> <<"s", "t">>
      [] c = "U+0153" -> <<"o", "e">>
      [] c = "U+00E6" -> <<"a", "e">>
      [] c = "U+2013" -> <<"-">>
      [] c = "U+2014" -> <<"-", "-">>
      [] c = "U+2026" -> <<".", ".", ".">>
      [] OTHER -> <<c>>

\* Step 1: every ligature replaced
ReplaceLigatures(t) == FlattenSeq([i \in 1..Len(t) |-> LigatureMap(t[i])])

\* Step 2: re.sub(r'\r\n|\r', '\n', text)
RECURSIVE NormalizeLineEndings(_)
NormalizeLineEndings(t) ==
    IF t = <<>> THEN <<>>
    ELSE IF Head(t) = "\r"
         THEN IF Len(t) >= 2 /\ t[2] = "\n"
              THEN <<"\n">> \o NormalizeLineEndings(Tail(Tail(t)))
              ELSE <<"\n">> \o NormalizeLineEndings(Tail(t))
         ELSE <<Head(t)>> \o NormalizeLineEndings(Tail(t))

\* text.split('\n')
RECURSIVE SplitLines(_)
SplitLines(t) ==
    IF \A i \in 1..Len(t) : t[i] # "\n" THEN <<t>>
    ELSE LET k == CHOOSE i \in 1..Len(t) :
                      t[i] = "\n" /\ \A j \in 1..(i - 1) : t[j] # "\n"
         IN  <<SubSeq(t, 1, k - 1)>> \o SplitLines(SubSeq(t, k + 1, Len(t)))

\* '\n'.join(lines)
RECURSIVE JoinLines(_)
JoinLines(lines) ==
    IF lines = <<>> THEN <<>>
    ELSE IF Len(lines) = 1 THEN Head(lines)
    ELSE Head(lines) \o <<"\n">> \o JoinLines(Tail(lines))

\* re.sub(r' +', ' ', content)
RECURSIVE CollapseSpaces(_)
CollapseSpaces(t) ==
    IF t = <<>> THEN <<>>
    ELSE IF Head(t) = " " /\ Len(t) >= 2 /\ t[2] = " " THEN CollapseSpaces(Tail(t))
    ELSE <<Head(t)>> \o CollapseSpaces(Tail(t))

\* Step 3, one line: trailing whitespace cut, the leading whitespace counted
\* and written back as spaces, runs of spaces inside the content collapsed
CleanLine(line) ==
    LET cleaned_line == RStrip(line)
        content == LStrip(cleaned_line)
        leading_spaces == Len(cleaned_line) - Len(content)
    IN  IF content # <<>>
        THEN [i \in 1..leading_spaces |-> " "] \o CollapseSpaces(content)
        ELSE cleaned_line

\* the length of the run of '\n' that starts t
RECURSIVE NewlineRun(_)
NewlineRun(t) ==
    IF t # <<>> /\ Head(t) = "\n" THEN 1 + NewlineRun(Tail(t)) ELSE 0

\* Step 4: re.sub(r'\n{3,}', '\n\n', result)
RECURSIVE CollapseBlankLines(_)
CollapseBlankLines(t) ==
    IF t = <<>> THEN <<>>
    ELSE LET n == NewlineRun(t)
         IN  IF n >= 3
             THEN <<"\n", "\n">> \o CollapseBlankLines(SubSeq(t, n + 1, Len(t)))
             ELSE IF n >= 1
             THEN SubSeq(t, 1, n) \o CollapseBlankLines(SubSeq(t, n + 1, Len(t)))
             ELSE <<Head(t)>> \o CollapseBlankLines(Tail(t))

\* Step 5: result.replace('\t', ' ')
ReplaceTabs(t) == [i \in 1..Len(t) |-> IF t[i] = "\t" THEN " " ELSE t[i]]

\* TextCleaner.normalize_text
normalize_text(text) ==
    IF text = <<>> THEN text
    ELSE LET normalized == NormalizeLineEndings(ReplaceLigatures(text))
             lines == SplitLines(normalized)
             cleaned_lines == [i \in 1..Len(lines) |-> CleanLine(lines[i])]
         IN  ReplaceTabs(CollapseBlankLines(JoinLines(cleaned_lines)))

(***************************************************************************)
(* SpecNormalizeText: normalize_text on a text, and again on its result    *)
(***************************************************************************)
MaxTextLen == 4

\* letters, a space, a tab, both line-ending characters and a ligature
TextChars == {"a", " ", "\t", "\n", "\r", "U+FB01"}

TextsUpTo(n) == UNION {[1..k -> TextChars] : k \in 0..n}

StartNormalizeText ==
    /\ fn_pc = "ready"
    /\ fn_in \in TextsUpTo(MaxTextLen)
    /\ fn_out = <<>>

\* normalized = cleaner.normalize_text(text)
NormalizeOnce ==
    /\ fn_pc = "ready"
    /\ fn_out' = <<normalize_text(fn_in)>>
    /\ fn_pc' = "once"
    /\ UNCHANGED fn_in
    /\ UNCHANGED <<sbVars, ccVars, teVars, tcVars, exVars>>

\* cleaner.normalize_text(normalized)
NormalizeAgain ==
    /\ fn_pc = "once"
    /\ fn_out' = Append(fn_out, normalize_text(fn_out[1]))
    /\ fn_pc' = "twice"
    /\ UNCHANGED fn_in
    /\ UNCHANGED <<sbVars, ccVars, teVars, tcVars, exVars>>

InitNormalizeText == StartNormalizeText /\ IdleSb /\ IdleCc /\ IdleTe /\ IdleTc /\ IdleEx

NextNormalizeText == NormalizeOnce \/ NormalizeAgain

SpecNormalizeText == InitNormalizeText /\ [][NextNormalizeText]_vars

(***************************************************************************)
(* Properties of normalize_text (SpecNormalizeText)                        *)
(***************************************************************************)
\* C13: normalize_text is idempotent: normalising a text that is already a
\* result of normalize_text gives that text again, for any mix of letters,
\* spaces, tabs, carriage returns, line feeds and ligatures.
C13_NormalizeIdempotent ==
    fn_pc = "twice" => fn_out[2] = fn_out[1]

(***************************************************************************)
(* TableNormalizer.normalize_table on a list of rows (table_normalizer.py) *)
(***************************************************************************)
UpperSeq == <<"A", "B", "C", "D", "E", "F", "G", "H", "I", "J", "K", "L", "M",
              "N", "O", "P", "Q", "R", "S", "T", "U", "V", "W", "X", "Y", "Z">>

LowerSeq == <<"a", "b", "c", "d", "e", "f", "g", "h", "i", "j", "k", "l", "m",
              "n", "o", "p", "q", "r", "s", "t", "u", "v", "w", "x", "y", "z">>

\* str.lower()
Lower(t) ==
    [i \in 1..Len(t) |->
        IF \E k \in 1..26 : UpperSeq[k] = t[i]
        THEN LowerSeq[CHOOSE k \in 1..26 : UpperSeq[k] = t[i]]
        ELSE t[i]]

\* the cell texts _clean_cell_content takes for a missing value
NullWords == {<<"n", "a", "n">>, <<"n", "o", "n", "e">>, <<"n", "u", "l", "l">>}

\* re.sub(r'\s+', ' ', content)
RECURSIVE CollapseWhitespace(_)
CollapseWhitespace(t) ==
    IF t = <<>> THEN <<>>
    ELSE IF Head(t) \in WhitespaceChars
         THEN IF Len(t) >= 2 /\ t[2] \in WhitespaceChars
              THEN CollapseWhitespace(Tail(t))
              ELSE <<" ">> \o CollapseWhitespace(Tail(t))
         ELSE <<Head(t)>> \o CollapseWhitespace(Tail(t))

\* re.sub(r'[\r\n]+', ' ', content)
RECURSIVE ReplaceNewlineRuns(_)
ReplaceNewlineRuns(t) ==
    IF t = <<>> THEN <<>>
    ELSE IF Head(t) \in {"\r", "\n"}
         THEN IF Len(t) >= 2 /\ t[2] \in {"\r", "\n"}
              THEN ReplaceNewlineRuns(Tail(t))
              ELSE <<" ">> \o ReplaceNewlineRuns(Tail(t))
         ELSE <<Head(t)>> \o ReplaceNewlineRuns(Tail(t))

\* TableNormalizer._clean_cell_content with the default options
\* (strip_whitespace and normalize_spacing both True)
clean_cell_content(content) ==
    IF content = <<>> \/ Lower(content) \in NullWords THEN <<>>
    ELSE ReplaceNewlineRuns(CollapseWhitespace(Strip(content)))

\* TableNormalizer._normalize_list_of_lists
normalize_list_of_lists(table) ==
    [r \in 1..Len(table) |->
        [c \in 1..Len(table[r]) |->
            IF table[r][c] = NoneCell THEN <<>>
            ELSE clean_cell_content(table[r][c])]]

\* TableNormalizer.normalize_table for table_data that is a list
normalize_table(table_data) == normalize_list_of_lists(table_data)

(***************************************************************************)
(* SpecNormalizeTable: normalize_table on a rectangular table of strings   *)
(***************************************************************************)
MaxTableRows == 2

TableWidths == {1, 2}

CellNan == <<"n", "a", "n">>

CellNoneWord == <<"N", "o", "n", "e">>

CellSpaced == <<" ", "a", " ", " ", "b", " ">>

CellTwoLines == <<"a", "\n", "b">>

CellPlain == <<"a", "b">>

\* what a cell of a well-formed table may hold: any string
CellTexts == {CellNan, CellNoneWord, CellSpaced, CellTwoLines, CellPlain, <<>>}

\* rectangular tables: every row of the same width, every cell a string
RectangularTables ==
    UNION {[1..r -> [1..c -> CellTexts]] : r \in 0..MaxTableRows, c \in TableWidths}

StartNormalizeTable ==
    /\ fn_pc = "ready"
    /\ fn_in \in RectangularTables
    /\ fn_out = <<>>

\* normalizer.normalize_table(table)
NormalizeTable ==
    /\ fn_pc = "ready"
    /\ fn_in \in RectangularTables
    /\ fn_out' = <<normalize_table(fn_in)>>
    /\ fn_pc' = "once"
    /\ UNCHANGED fn_in
    /\ UNCHANGED <<sbVars, ccVars, teVars, tcVars, exVars>>

\* normalizer.normalize_table(normalized)
NormalizeTableAgain ==
    /\ fn_pc = "once"
    /\ fn_in \in RectangularTables
    /\ fn_out' = Append(fn_out, normalize_table(fn_out[1]))
    /\ fn_pc' = "twice"
    /\ UNCHANGED fn_in
    /\ UNCHANGED <<sbVars, ccVars, teVars, tcVars, exVars>>

InitNormalizeTable == StartNormalizeTable /\ IdleSb /\ IdleCc /\ IdleTe /\ IdleTc /\ IdleEx

NextNormalizeTable == NormalizeTable \/ NormalizeTableAgain

SpecNormalizeTable == InitNormalizeTable /\ [][NextNormalizeTable]_vars

(***************************************************************************)
(* Properties of normalize_table (SpecNormalizeTable)                      *)
(***************************************************************************)
\* the characters of a cell that are not whitespace, in order
NonWhitespaceOf(t) == SelectSeq(t, LAMBDA ch : ch \notin WhitespaceChars)

\* C14: normalize_table of a rectangular table of strings returns a table
\* with the same rows and the same cells per row, and every cell keeps its
\* non-whitespace content: only whitespace is stripped or collapsed, no
\* cell is altered otherwise or emptied.
C14_CellsKeepContent ==
    fn_pc = "once" =>
        /\ Len(fn_out[1]) = Len(fn_in)
        /\ \A r \in 1..Len(fn_in) :
            /\ Len(fn_out[1][r]) = Len(fn_in[r])
            /\ \A c \in 1..Len(fn_in[r]) :
                NonWhitespaceOf(fn_out[1][r][c]) = NonWhitespaceOf(fn_in[r][c])

(***************************************************************************)
(* Table.to_2d_array (models.py)                                           *)
(***************************************************************************)
\* TableCell(text, row, col)
MkCell(text, row, col) == [text |-> text, row |-> row, col |-> col]

\* Table(cells, rows, cols)
MkTable(cells, rows, cols) == [cells |-> cells, rows |-> rows, cols |-> cols]

\* the guard of the loop: cell.row < self.rows and cell.col < self.cols
CellInGuard(t, cell) == cell.row < t.rows /\ cell.col < t.cols

\* list[i] on a list of n items: i counts from the end when negative, and
\* the access raises IndexError outside -n..n-1
IndexRaises(i, n) == i >= n \/ i < 0 - n

\* the position list[i] reads or writes, counted from 1
ListIndex(i, n) == IF i >= 0 THEN i + 1 ELSE n + i + 1

\* array[cell.row][cell.col] = cell.text raises IndexError
CellWriteRaises(t, cell) ==
    CellInGuard(t, cell) /\ (IndexRaises(cell.row, t.rows) \/ IndexRaises(cell.col, t.cols))

ToArrayRaises(t) == \E i \in 1..Len(t.cells) : CellWriteRaises(t, t.cells[i])

\* the cells whose write lands on position (r, c), in list order
WritersOf(t, r, c) ==
    {i \in 1..Len(t.cells) :
        /\ CellInGuard(t, t.cells[i])
        /\ ListIndex(t.cells[i].row, t.rows) = r
        /\ ListIndex(t.cells[i].col, t.cols) = c}

\* Table.to_2d_array when no write raises: a grid of "" overwritten cell by cell
to_2d_array(t) ==
    [r \in 1..t.rows |->
        [c \in 1..t.cols |->
            IF WritersOf(t, r, c) = {} THEN <<>>
            ELSE t.cells[SetMax(WritersOf(t, r, c))].text]]

(***************************************************************************)
(* SpecGrid: to_2d_array called twice on one Table                         *)
(***************************************************************************)
MaxGridDim == 2

MaxCells == 2

\* TableCell.row and TableCell.col are plain ints: nothing in models.py
\* restricts them
CellRows == {-3, -1, 0, 1, 2}

CellCols == {-1, 0, 1, 2}

CellLabels == {<<"x">>, <<"y">>}

GridCells == {MkCell(tx, r, c) : tx \in CellLabels, r \in CellRows, c \in CellCols}

GridTables ==
    {MkTable(cells, rows, cols) :
        cells \in UNION {[1..k -> GridCells] : k \in 0..MaxCells},
        rows \in 0..MaxGridDim, cols \in 0..MaxGridDim}

StartGrid ==
    /\ fn_pc = "ready"
    /\ fn_in \in GridTables
    /\ fn_out = <<>>

\* table.to_2d_array(); the method assigns to no field of the table
ToArray ==
    /\ fn_pc \in {"ready", "once"}
    /\ fn_in \in GridTables
    /\ IF ToArrayRaises(fn_in)
       THEN fn_pc' = "raised" /\ fn_out' = fn_out
       ELSE /\ fn_pc' = (IF fn_pc = "ready" THEN "once" ELSE "twice")
            /\ fn_out' = Append(fn_out, to_2d_array(fn_in))
    /\ UNCHANGED fn_in
    /\ UNCHANGED <<sbVars, ccVars, teVars, tcVars, exVars>>

InitGrid == StartGrid /\ IdleSb /\ IdleCc /\ IdleTe /\ IdleTc /\ IdleEx

NextGrid == ToArray

SpecGrid == InitGrid /\ [][NextGrid]_vars

(***************************************************************************)
(* Properties of to_2d_array (SpecGrid)                                    *)
(***************************************************************************)
\* a TableCell of the table sits at grid position (r, c), counted from 1
CoveredByCell(t, r, c) ==
    \E i \in 1..Len(t.cells) : t.cells[i].row = r - 1 /\ t.cells[i].col = c - 1

\* C15: to_2d_array is total and idempotent: for any Table it returns (never
\* raises) a dense grid of rows x cols strings, a second call returns the
\* same grid, and every position that no TableCell covers holds "".
C15_TotalDenseIdempotent ==
    /\ fn_pc # "raised"
    /\ fn_pc \in {"once", "twice"} =>
        /\ Len(fn_out[1]) = fn_in.rows
        /\ \A r \in 1..fn_in.rows :
            /\ Len(fn_out[1][r]) = fn_in.cols
            /\ \A c \in 1..fn_in.cols :
                ~CoveredByCell(fn_in, r, c) => fn_out[1][r][c] = <<>>
    /\ fn_pc = "twice" => fn_out[2] = fn_out[1]

(***************************************************************************)
(* TextCleaner: artifact detection and removal (text_cleaner.py)           *)
(***************************************************************************)
\* artifact_threshold = 0.5, in percent
ArtifactThresholdPercent == 50

\* position_tolerance = 5.0
PositionTolerance == 5

\* BoundingBox: only the corner the cleaner looks at
MkBBox(x0, y0) == [x0 |-> x0, y0 |-> y0]

\* TextSpan
MkTextSpan(text, bbox) == [text |-> text, bbox |-> bbox]

\* TextLine.text: ''.join(span.text for span in self.spans)
LineText(line) == FlattenSeq([i \in 1..Len(line.spans) |-> line.spans[i].text])

\* ContentBlock.text: '\n'.join(line.text for line in self.lines)
BlockText(block) == JoinLines([i \in 1..Len(block.lines) |-> LineText(block.lines[i])])

\* the values of a sequence, each once, in the order of first occurrence
\* (the key order of a dict or Counter filled from the sequence)
RECURSIVE DistinctInOrder(_)
DistinctInOrder(s) ==
    IF s = <<>> THEN <<>>
    ELSE LET rest == DistinctInOrder(SubSeq(s, 1, Len(s) - 1))
         IN  IF s[Len(s)] \in Range(rest) THEN rest ELSE Append(rest, s[Len(s)])

\* TextCleaner._extract_page_texts: the text blocks, then every span
extract_page_texts(page) ==
    LET blocks == page.content_blocks
        of_block(b) ==
            IF b.block_type = 0 /\ Strip(BlockText(b)) # <<>>
            THEN <<[text |-> Strip(BlockText(b)), bbox |-> b.bbox]>> ELSE <<>>
        of_span(sp) ==
            IF Strip(sp.text) # <<>>
            THEN <<[text |-> Strip(sp.text), bbox |-> sp.bbox]>> ELSE <<>>
        of_line(l) == FlattenSeq([k \in 1..Len(l.spans) |-> of_span(l.spans[k])])
        spans_of(b) == FlattenSeq([j \in 1..Len(b.lines) |-> of_line(b.lines[j])])
    IN  FlattenSeq([i \in 1..Len(blocks) |-> of_block(blocks[i])])
        \o FlattenSeq([i \in 1..Len(blocks) |-> spans_of(blocks[i])])

\* round(v / position_tolerance) * position_tolerance for an integer v >= 0
Quantise(v) == ((2 * v + PositionTolerance) \div (2 * PositionTolerance)) * PositionTolerance

\* TextCleaner._get_position_key
get_position_key(bbox) == <<Quantise(bbox.x0), Quantise(bbox.y0)>>

\* a regular expression that is a sequence of character classes, each
\* repeated min..max times (max = -1: no limit), matched against the whole text
RECURSIVE MatchParts(_, _)
MatchParts(parts, t) ==
    IF parts = <<>> THEN t = <<>>
    ELSE LET p == Head(parts)
             most == IF p.max = -1 \/ p.max > Len(t) THEN Len(t) ELSE p.max
         IN  \E k \in p.min..most :
                /\ \A i \in 1..k : t[i] \in p.chars
                /\ MatchParts(Tail(parts), SubSeq(t, k + 1, Len(t)))

Part(chars, min, max) == [chars |-> chars, min |-> min, max |-> max]

Spaces == Part(WhitespaceChars, 0, -1)

Digits == Part(DigitChars, 1, -1)

Lit(c) == Part({c}, 1, 1)

\* TextCleaner.page_number_patterns, for a lower-cased text (re.IGNORECASE)
page_number_patterns ==
    << <<Spaces, Digits, Spaces>>,
       <<Spaces, Lit("p"), Lit("a"), Lit("g"), Lit("e"),
         Part(WhitespaceChars, 1, -1), Digits, Spaces>>,
       <<Spaces, Digits, Spaces, Lit("/"), Spaces, Digits, Spaces>>,
       <<Spaces, Lit("-"), Spaces, Digits, Spaces, Lit("-"), Spaces>> >>

\* TextCleaner.artifact_patterns[0]: ^[A-Z\s]{10,}$, matched case-sensitively
AllCapsPattern == <<Part(UpperChars \cup WhitespaceChars, 10, -1)>>

\* TextCleaner.artifact_patterns[1]: ^\d{1,2}/\d{1,2}/\d{2,4}$
DatePattern ==
    <<Part(DigitChars, 1, 2), Lit("/"), Part(DigitChars, 1, 2), Lit("/"),
      Part(DigitChars, 2, 4)>>

\* ^[\d\s\-\./]+$
NumbersAndSymbolsPattern ==
    <<Part(DigitChars \cup WhitespaceChars \cup {"-", ".", "/"}, 1, -1)>>

\* str.isalpha()
IsAlpha(t) == t # <<>> /\ \A i \in 1..Len(t) : t[i] \in UpperChars \cup LowerChars

\* TextCleaner._is_likely_artifact
is_likely_artifact(raw) ==
    LET text == Strip(raw)
        low == Lower(text)
    IN  \/ \E i \in 1..Len(page_number_patterns) : MatchParts(page_number_patterns[i], low)
        \/ MatchParts(AllCapsPattern, text)
        \/ MatchParts(DatePattern, text)
        \/ (Len(low) >= 4 /\ SubSeq(low, 1, 4) = <<"w", "w", "w", ".">>)
        \/ \E i \in 1..Len(text) : text[i] \in {"@", "U+00A9"}
        \/ (Len(text) <= 3 /\ ~IsAlpha(text))
        \/ MatchParts(NumbersAndSymbolsPattern, text)

\* TextCleaner._is_header_footer_position: the top or bottom tenth of the page
is_header_footer_position(bbox, sample_page) ==
    \/ bbox.y0 * 10 < sample_page.page_height
    \/ bbox.y0 * 10 > sample_page.page_height * 9

\* max(1, int(total_pages * self.artifact_threshold))
artifact_threshold_count(total_pages) ==
    LET n == (total_pages * ArtifactThresholdPercent) \div 100
    IN  IF n >= 1 THEN n ELSE 1

\* the loop filling position_groups and text_frequency: one entry per
\* extracted text of at least 2 characters, in page order
DetectionEntries(pages) ==
    LET of_page(page) ==
            LET texts == extract_page_texts(page)
                kept == SelectSeq(texts, LAMBDA e : Len(Strip(e.text)) >= 2)
            IN  [i \in 1..Len(kept) |->
                    [text |-> kept[i].text, page |-> page.page_number, bbox |-> kept[i].bbox]]
    IN  FlattenSeq([i \in 1..Len(pages) |-> of_page(pages[i])])

\* position_groups: the keys in insertion order
PositionKeys(entries) ==
    DistinctInOrder([i \in 1..Len(entries) |-> get_position_key(entries[i].bbox)])

\* position_groups[key]
PositionGroup(entries, key) ==
    SelectSeq(entries, LAMBDA e : get_position_key(e.bbox) = key)

\* all entries in the order "for pos_key, entries in position_groups.items()"
EntriesByGroup(entries) ==
    LET keys == PositionKeys(entries)
    IN  FlattenSeq([k \in 1..Len(keys) |-> PositionGroup(entries, keys[k])])

\* TextArtifact(text, bbox, pages); signal names the method that made it
MkArtifact(text, bbox, pages, signal) ==
    [text |-> text, bbox |-> bbox, pages |-> pages,
     frequency |-> Cardinality(pages), signal |-> signal]

\* Method 1: a text counted at least artifact_threshold_count times in
\* text_frequency and shaped like an artifact
FrequencyArtifacts(pages) ==
    LET entries == DetectionEntries(pages)
        texts == DistinctInOrder([i \in 1..Len(entries) |-> Strip(entries[i].text)])
        count(t) == Cardinality({i \in 1..Len(entries) : Strip(entries[i].text) = t})
        with(t) == SelectSeq(EntriesByGroup(entries), LAMBDA e : Strip(e.text) = t)
        of_text(t) ==
            IF count(t) >= artifact_threshold_count(Len(pages)) /\ is_likely_artifact(t)
            THEN <<MkArtifact(t, with(t)[1].bbox,
                              {with(t)[i].page : i \in 1..Len(with(t))}, "frequency")>>
            ELSE <<>>
    IN  FlattenSeq([i \in 1..Len(texts) |-> of_text(texts[i])])

\* Method 2: a position group of at least artifact_threshold_count entries in
\* the header or footer band, and in it every text with that many entries
PositionArtifacts(pages) ==
    LET entries == DetectionEntries(pages)
        keys == PositionKeys(entries)
        thr == artifact_threshold_count(Len(pages))
        of_group(group) ==
            LET texts == DistinctInOrder([i \in 1..Len(group) |-> Strip(group[i].text)])
                with(t) == SelectSeq(group, LAMBDA e : Strip(e.text) = t)
                of_text(t) ==
                    IF Len(with(t)) >= thr
                    THEN <<MkArtifact(t, with(t)[1].bbox,
                                      {with(t)[i].page : i \in 1..Len(with(t))}, "position")>>
                    ELSE <<>>
            IN  IF Len(group) >= thr /\ is_header_footer_position(group[1].bbox, pages[1])
                THEN FlattenSeq([i \in 1..Len(texts) |-> of_text(texts[i])])
                ELSE <<>>
    IN  FlattenSeq([k \in 1..Len(keys) |-> of_group(PositionGroup(entries, keys[k]))])

\* TextCleaner._detect_artifacts
detect_artifacts(pages) == FrequencyArtifacts(pages) \o PositionArtifacts(pages)

\* TextCleaner._clean_text_lines: every span normalised, empty spans and
\* empty lines dropped
clean_text_lines(text_lines) ==
    LET clean_span(sp) ==
            IF Strip(normalize_text(sp.text)) # <<>>
            THEN <<MkTextSpan(normalize_text(sp.text), sp.bbox)>> ELSE <<>>
        clean_line(l) ==
            LET cleaned_spans == FlattenSeq([k \in 1..Len(l.spans) |-> clean_span(l.spans[k])])
            IN  IF cleaned_spans # <<>> THEN <<[spans |-> cleaned_spans]>> ELSE <<>>
    IN  FlattenSeq([j \in 1..Len(text_lines) |-> clean_line(text_lines[j])])

\* the artifact texts _clean_page removes from a page
ArtifactTexts(page, artifacts) ==
    {artifacts[i].text : i \in {j \in 1..Len(artifacts) : page.page_number \in artifacts[j].pages}}

\* TextCleaner._clean_page: a new PageContent is made of the page number,
\* the dimensions and the rotation of the page; its content_blocks and
\* text_blocks are filled from the page, its tables and images keep the
\* defaults of the dataclass (empty lists)
clean_page(page, artifacts) ==
    LET clean_block(b) ==
            IF b.block_type # 0 THEN <<b>>
            ELSE IF Strip(BlockText(b)) \in ArtifactTexts(page, artifacts) THEN <<>>
            ELSE IF Strip(normalize_text(BlockText(b))) # <<>>
                 THEN <<[b EXCEPT !.lines = clean_text_lines(b.lines)]>>
                 ELSE <<>>
        clean_text_block(tb) ==
            IF Strip(tb.text) \notin ArtifactTexts(page, artifacts)
               /\ Strip(normalize_text(tb.text)) # <<>>
            THEN <<[tb EXCEPT !.text = normalize_text(tb.text)]>>
            ELSE <<>>
    IN  [page_number |-> page.page_number,
         page_width |-> page.page_width,
         page_height |-> page.page_height,
         rotation |-> page.rotation,
         content_blocks |-> FlattenSeq([i \in 1..Len(page.content_blocks) |->
                                           clean_block(page.content_blocks[i])]),
         text_blocks |-> FlattenSeq([i \in 1..Len(page.text_blocks) |->
                                        clean_text_block(page.text_blocks[i])]),
         tables |-> <<>>,
         images |-> <<>>]

\* sorted(..., key=frequency, reverse=True): stable, most frequent first
RECURSIVE SortByFrequency(_)
SortByFrequency(s) ==
    IF s = <<>> THEN <<>>
    ELSE LET k == CHOOSE i \in 1..Len(s) :
                      /\ \A j \in 1..Len(s) : s[j].frequency <= s[i].frequency
                      /\ \A j \in 1..(i - 1) : s[j].frequency < s[i].frequency
         IN  <<s[k]>> \o SortByFrequency(SubSeq(s, 1, k - 1) \o SubSeq(s, k + 1, Len(s)))

\* TextCleaner.get_artifact_report: report['artifacts']; the coverage
\* percentage frequency / len(pages) * 100 is kept as the fraction num / den
get_artifact_report(pages) ==
    LET artifacts == detect_artifacts(pages)
    IN  SortByFrequency(
            [i \in 1..Len(artifacts) |->
                [text |-> artifacts[i].text,
                 frequency |-> artifacts[i].frequency,
                 pages |-> artifacts[i].pages,
                 coverage_percentage |->
                     [num |-> artifacts[i].frequency * 100, den |-> Len(pages)]]])

(***************************************************************************)
(* SpecCleaner: clean_pages and get_artifact_report on a few pages         *)
(***************************************************************************)
MaxCleanPages == 5

TextConfidential == <<"C", "O", "N", "F", "I", "D", "E", "N", "T", "I", "A", "L">>

\* a text block of one line per span
MkContentBlock(spans) ==
    [block_type |-> 0, bbox |-> spans[1].bbox,
     lines |-> [i \in 1..Len(spans) |-> [spans |-> <<spans[i]>>]]]

HeaderSpan(y0) == MkTextSpan(TextConfidential, MkBBox(72, y0))

BodySpan(y0) == MkTextSpan(TextBody, MkBBox(72, y0))

\* how a page is laid out: the running header in a block of its own (at one
\* of two heights that quantise to the same position), no header at all, or
\* the header as the first line of the block that holds the body
PageLayouts == {"header_block", "header_block_lower", "body_only", "header_line"}

LayoutBlocks(layout) ==
    CASE layout = "header_block" ->
            <<MkContentBlock(<<HeaderSpan(20)>>), MkContentBlock(<<BodySpan(300)>>)>>
      [] layout = "header_block_lower" ->
            <<MkContentBlock(<<HeaderSpan(22)>>), MkContentBlock(<<BodySpan(300)>>)>>
      [] layout = "body_only" ->
            <<MkContentBlock(<<BodySpan(300)>>)>>
      [] layout = "header_line" ->
            <<MkContentBlock(<<HeaderSpan(20), BodySpan(40)>>)>>

\* the tables and images found on a page: a page of body text only holds
\* one table and one image, named by their extraction method and image_id
LayoutTables(layout) == IF layout = "body_only" THEN <<"pdfplumber">> ELSE <<>>

LayoutImages(layout) == IF layout = "body_only" THEN <<"img_1">> ELSE <<>>

\* PageContent: a page of 595 x 800 points, upright when it holds its header in
\* a block of its own and turned by 90 degrees otherwise
MkPage(page_number, layout) ==
    [page_number |-> page_number, page_width |-> 595, page_height |-> 800,
     rotation |-> IF layout = "header_block" THEN 0 ELSE 90,
     content_blocks |-> LayoutBlocks(layout),
     text_blocks |-> <<>>,
     tables |-> LayoutTables(layout),
     images |-> LayoutImages(layout)]

StartCleaner ==
    /\ tc_pc = "pages"
    /\ \E n \in 1..MaxCleanPages : \E layouts \in [1..n -> PageLayouts] :
           tc_pages = [i \in 1..n |-> MkPage(i, layouts[i])]
    /\ tc_artifacts = <<>>
    /\ tc_cleaned = <<>>
    /\ tc_report = <<>>

\* TextCleaner.clean_pages
CleanPages ==
    /\ tc_pc = "pages"
    /\ tc_artifacts' = detect_artifacts(tc_pages)
    /\ tc_cleaned' = [i \in 1..Len(tc_pages) |-> clean_page(tc_pages[i], tc_artifacts')]
    /\ tc_pc' = "cleaned"
    /\ UNCHANGED <<tc_pages, tc_report>>
    /\ UNCHANGED <<sbVars, ccVars, teVars, fnVars, exVars>>

\* TextCleaner.get_artifact_report
GetArtifactReport ==
    /\ tc_pc \in {"pages", "cleaned"}
    /\ tc_report = <<>>
    /\ get_artifact_report(tc_pages) # <<>>
    /\ tc_report' = get_artifact_report(tc_pages)
    /\ UNCHANGED <<tc_pc, tc_pages, tc_artifacts, tc_cleaned>>
    /\ UNCHANGED <<sbVars, ccVars, teVars, fnVars, exVars>>

InitCleaner == StartCleaner /\ IdleSb /\ IdleCc /\ IdleTe /\ IdleFn /\ IdleEx

NextCleaner == CleanPages \/ GetArtifactReport

SpecCleaner == InitCleaner /\ [][NextCleaner]_vars

(***************************************************************************)
(* Properties of the cleaner (SpecCleaner)                                 *)
(***************************************************************************)
\* the texts a page carries: of its blocks and of its spans, stripped
CarriedTexts(page) ==
    {Strip(BlockText(page.content_blocks[i])) : i \in 1..Len(page.content_blocks)}
    \cup UNION {UNION {{Strip(page.content_blocks[i].lines[j].spans[k].text) :
                            k \in 1..Len(page.content_blocks[i].lines[j].spans)} :
                       j \in 1..Len(page.content_blocks[i].lines)} :
                i \in 1..Len(page.content_blocks)}

\* the blocks of a page that are no artifact of this page survive the cleaning
NonArtifactBlocksKept(i) ==
    \A b \in 1..Len(tc_pages[i].content_blocks) :
        LET block == tc_pages[i].content_blocks[b]
        IN  Strip(BlockText(block)) \notin ArtifactTexts(tc_pages[i], tc_artifacts)
            => \E c \in 1..Len(tc_cleaned[i].content_blocks) :
                   /\ tc_cleaned[i].content_blocks[c].bbox = block.bbox
                   /\ BlockText(tc_cleaned[i].content_blocks[c])
                          = normalize_text(BlockText(block))

PagesCarrying(text) ==
    {tc_pages[i].page_number : i \in {j \in 1..Len(tc_pages) : text \in CarriedTexts(tc_pages[j])}}

\* ceil(total_pages * artifact_threshold)
CeilThreshold(total_pages) == (total_pages * ArtifactThresholdPercent + 99) \div 100

\* C12: the frequency signal flags a text only if the text occurs on at
\* least ceil(total_pages * artifact_threshold) pages and is shaped like an
\* artifact.
C12_FrequencyNeedsEnoughPages ==
    tc_pc = "cleaned" =>
        \A a \in 1..Len(tc_artifacts) :
            tc_artifacts[a].signal = "frequency"
                => /\ Cardinality(PagesCarrying(tc_artifacts[a].text))
                          >= CeilThreshold(Len(tc_pages))
                   /\ is_likely_artifact(tc_artifacts[a].text)

(***************************************************************************)
(* PDFStructureExtractor.extract (extractor.py) and                        *)
(* PageProcessor.process_page (page_processor.py)                          *)
(***************************************************************************)
KnownErrors == {"ExtractionError", "PasswordRequiredError", "UnsupportedPDFError"}

\* what fitz.open(pdf_path) does: returns a document, or raises
\* fitz.FileNotFoundError, a fitz.PyMuPDFError whose message has
\* "not supported", another fitz.PyMuPDFError, or any other exception
OpenOutcomes ==
    {"ok", "FileNotFoundError", "PyMuPDFError: not supported", "PyMuPDFError", "Exception"}

\* the except clauses around fitz.open: what is raised instead
OpenErrorType(outcome) ==
    IF outcome = "PyMuPDFError: not supported" THEN "UnsupportedPDFError"
    ELSE "ExtractionError"

\* OuterHandler without the "except Exception" clause
OuterHandlerReraises(exc) == exc

\* the two outer except clauses: what a caller of extract sees for an
\* exception raised inside the outer try
OuterHandler(exc) == IF exc \in KnownErrors THEN exc ELSE "ExtractionError"

\* Finally without the call of close()
FinallyWithoutClose(handle, close_raises) == handle

\* the finally clause: pdf_doc.close() when pdf_doc is not None; an
\* exception of close() is logged and dropped
Finally(handle, close_raises) ==
    IF handle = "none" THEN "none"
    ELSE IF close_raises THEN "close_failed" ELSE "closed"

\* an exception raised inside the outer try leaves extract
Raises(exc, close_raises) ==
    /\ ex_exit' = OuterHandler(exc)
    /\ ex_handle' = Finally(ex_handle, close_raises)
    /\ ex_pc' = "exit"

\* where the processing of one page can fail: pdf_doc[page_num], and inside
\* process_page page.get_text, _process_block, extract_images_from_page, or
\* anything else in its outer try; then _create_legacy_text_blocks
PageFaults == {"none", "load_page", "get_text", "process_block", "extract_images",
               "process_page", "legacy_text_blocks"}

\* PageProcessor.process_page catches every one of its own failures and
\* returns a PageContent; the others raise into the loop of extract
RaisesIntoLoop(fault) == fault \in {"load_page", "legacy_text_blocks"}

(***************************************************************************)
(* SpecExtract: one call of extract                                        *)
(***************************************************************************)
MaxPages == 3

StartExtraction ==
    /\ ex_pc = "open"
    /\ ex_handle = "none"
    /\ ex_next = 0
    /\ ex_count = 0
    /\ ex_pages = <<>>
    /\ ex_errors = <<>>
    /\ ex_faults = {}
    /\ ex_exit = "none"

\* pdf_doc = fitz.open(pdf_path) and its except clauses
OpenDocument ==
    /\ ex_pc = "open"
    /\ \E outcome \in OpenOutcomes :
        IF outcome = "ok"
        THEN /\ ex_handle' = "open"
             /\ ex_pc' = "password"
             /\ \E n \in 0..MaxPages : ex_count' = n
             /\ UNCHANGED <<ex_faults, ex_exit>>
        ELSE /\ Raises(OpenErrorType(outcome), FALSE)
             /\ ex_faults' = ex_faults \cup {[page |-> 0, at |-> outcome]}
             /\ UNCHANGED ex_count
    /\ UNCHANGED <<ex_next, ex_pages, ex_errors>>
    /\ UNCHANGED <<sbVars, ccVars, teVars, fnVars, tcVars>>

\* if pdf_doc.needs_pass: ... authenticate
CheckPassword ==
    /\ ex_pc = "password"
    /\ \E needs_pass \in BOOLEAN, has_password \in BOOLEAN,
          authenticate \in {"ok", "wrong", "raises"}, close_raises \in BOOLEAN :
        IF ~needs_pass \/ (has_password /\ authenticate = "ok")
        THEN /\ ex_pc' = "result"
             /\ UNCHANGED <<ex_handle, ex_faults, ex_exit>>
        ELSE /\ Raises("PasswordRequiredError", close_raises)
             /\ ex_faults' = ex_faults \cup
                    {[page |-> 0,
                      at |-> IF ~has_password THEN "no password"
                             ELSE IF authenticate = "wrong" THEN "wrong password"
                             ELSE "authenticate raised"]}
    /\ UNCHANGED <<ex_next, ex_count, ex_pages, ex_errors>>
    /\ UNCHANGED <<sbVars, ccVars, teVars, fnVars, tcVars>>

\* metadata (a failure gives {}), result = ExtractionResult(...), and the
\* start of the loop, range(pdf_doc.page_count), which may raise
CreateResult ==
    /\ ex_pc = "result"
    /\ \E metadata_raises \in BOOLEAN, unexpected \in BOOLEAN, close_raises \in BOOLEAN :
        /\ IF unexpected
           THEN Raises("Exception", close_raises)
           ELSE /\ ex_pc' = "pages"
                /\ UNCHANGED <<ex_handle, ex_exit>>
        /\ ex_faults' = ex_faults
               \cup (IF metadata_raises THEN {[page |-> 0, at |-> "metadata"]} ELSE {})
               \cup (IF unexpected THEN {[page |-> 0, at |-> "unexpected"]} ELSE {})
    /\ UNCHANGED <<ex_next, ex_count, ex_pages, ex_errors>>
    /\ UNCHANGED <<sbVars, ccVars, teVars, fnVars, tcVars>>

\* one iteration of "for page_num in range(pdf_doc.page_count)"
ProcessPage ==
    /\ ex_pc = "pages"
    /\ ex_next < ex_count
    /\ \E fault \in PageFaults :
        /\ IF RaisesIntoLoop(fault)
           THEN /\ ex_errors' = Append(ex_errors, ex_next + 1)
                /\ UNCHANGED ex_pages
           ELSE /\ ex_pages' = Append(ex_pages, ex_next + 1)
                /\ UNCHANGED ex_errors
        /\ ex_faults' = ex_faults
               \cup (IF fault = "none" THEN {} ELSE {[page |-> ex_next + 1, at |-> fault]})
    /\ ex_next' = ex_next + 1
    /\ UNCHANGED <<ex_pc, ex_handle, ex_count, ex_exit>>
    /\ UNCHANGED <<sbVars, ccVars, teVars, fnVars, tcVars>>

\* after the loop: return result.to_dict(), through the finally clause
FinishExtraction ==
    /\ ex_pc = "pages"
    /\ ex_next = ex_count
    /\ \E to_dict_raises \in BOOLEAN, close_raises \in BOOLEAN :
        /\ IF to_dict_raises
           THEN Raises("Exception", close_raises)
           ELSE /\ ex_exit' = "return"
                /\ ex_handle' = Finally(ex_handle, close_raises)
                /\ ex_pc' = "exit"
        /\ ex_faults' = ex_faults
               \cup (IF to_dict_raises THEN {[page |-> 0, at |-> "unexpected"]} ELSE {})
    /\ UNCHANGED <<ex_next, ex_count, ex_pages, ex_errors>>
    /\ UNCHANGED <<sbVars, ccVars, teVars, fnVars, tcVars>>

InitExtract == StartExtraction /\ IdleSb /\ IdleCc /\ IdleTe /\ IdleFn /\ IdleTc

NextExtract ==
    OpenDocument \/ CheckPassword \/ CreateResult \/ ProcessPage \/ FinishExtraction

SpecExtract == InitExtract /\ [][NextExtract]_vars

(***************************************************************************)
(* Properties of extract (SpecExtract)                                     *)
(***************************************************************************)
\* C16: once the document has been opened, every way out of extract (a
\* normal return, one of the three extraction errors, an unexpected
\* exception turned into ExtractionError) has gone through pdf_doc.close():
\* extract never ends with the handle still open, and the handle is closed
\* unless close() itself raised.
C16_HandleClosedOnEveryExit ==
    /\ ex_pc = "exit" => ex_handle \in {"none", "closed", "close_failed"}
    /\ ex_pc = "exit" /\ ex_handle = "none" =>
           \E f \in ex_faults : f.page = 0 /\ f.at \in OpenOutcomes
    /\ ex_pc \notin {"open", "exit"} => ex_handle = "open"

\* an exception left extract after the document had been opened, and the
\* document is closed
C16_Witness ==
    /\ ex_pc = "exit"
    /\ ex_exit = "ExtractionError"
    /\ ex_handle = "closed"
    /\ Len(ex_pages) >= 1

DocumentFault(at) == [page |-> 0, at |-> at] \in ex_faults

\* C17: whatever fails at the level of the document, the caller of extract
\* gets ExtractionError, PasswordRequiredError or UnsupportedPDFError and no
\* other exception type: ExtractionError for a file that is not found,
\* PasswordRequiredError for an encrypted document with no or a wrong
\* password, UnsupportedPDFError for an unsupported format.
C17_OnlyKnownErrorsEscape ==
    ex_pc = "exit" =>
        /\ ex_exit \in KnownErrors \cup {"return"}
        /\ DocumentFault("FileNotFoundError") => ex_exit = "ExtractionError"
        /\ DocumentFault("no password") \/ DocumentFault("wrong password")
               => ex_exit = "PasswordRequiredError"
        /\ DocumentFault("PyMuPDFError: not supported") => ex_exit = "UnsupportedPDFError"
        /\ (\E f \in ex_faults : f.page = 0 /\ f.at # "metadata") => ex_exit # "return"

\* an exception that is none of the three was raised inside extract and
\* the caller got ExtractionError
C17_Witness ==
    /\ ex_pc = "exit"
    /\ DocumentFault("unexpected")
    /\ ex_exit = "ExtractionError"

\* C18: whenever the processing of a page throws, the failure is in the
\* errors list of the result with the page number, and the pages after it
\* are still processed.
C18_PageFailureRecorded ==
    /\ \A f \in ex_faults : f.page >= 1 => f.page \in Range(ex_errors)
    /\ ex_exit = "return" => Len(ex_pages) + Len(ex_errors) = ex_count


(***************************************************************************)
(* build_structure over the pages of a document: the blocks of every page  *)
(* are collected by _extract_content_blocks and scanned in one sequence    *)
(***************************************************************************)
\* A TextBlock, Table or ImageInfo lying on a page: the block and its bbox
\* (has_bbox FALSE: bbox is None)
MkPlaced(block, has_bbox, y0, x0) ==
    [block |-> block, has_bbox |-> has_bbox, y0 |-> y0, x0 |-> x0]

\* PageContent as build_structure reads it
MkStructurePage(page_number, text_blocks, tables, images) ==
    [page_number |-> page_number, text_blocks |-> text_blocks,
     tables |-> tables, images |-> images]

\* block.metadata['page_number'] = page.page_number
TagWithPage(item, page_number) ==
    [cls |-> item.block.cls, content_type |-> item.block.content_type,
     text |-> item.block.text, font_info |-> item.block.font_info,
     spans |-> item.block.spans, parent_section |-> item.block.parent_section,
     position_in_section |-> item.block.position_in_section,
     page_number |-> page_number,
     has_bbox |-> item.has_bbox, y0 |-> item.y0, x0 |-> item.x0]

\* get_sort_key: (bbox.y0, bbox.x0), or (0, 0) for a block without bbox
get_sort_key(b) ==
    IF b.has_bbox THEN [y0 |-> b.y0, x0 |-> b.x0] ELSE [y0 |-> 0, x0 |-> 0]

\* _extract_content_blocks without blocks.sort(key=get_sort_key)
ExtractPageBlocksUnsorted(page) ==
    [k \in 1..Len(page.text_blocks) |-> TagWithPage(page.text_blocks[k], page.page_number)]
    \o [k \in 1..Len(page.tables) |-> TagWithPage(page.tables[k], page.page_number)]
    \o [k \in 1..Len(page.images) |-> TagWithPage(page.images[k], page.page_number)]

\* _extract_content_blocks: the text blocks, the tables and the images of
\* the page, each tagged with the page number, in the stable order of
\* get_sort_key
ExtractPageBlocks(page) ==
    LET blocks == [k \in 1..Len(page.text_blocks) |->
                       TagWithPage(page.text_blocks[k], page.page_number)]
                  \o [k \in 1..Len(page.tables) |->
                       TagWithPage(page.tables[k], page.page_number)]
                  \o [k \in 1..Len(page.images) |->
                       TagWithPage(page.images[k], page.page_number)]
        keys   == [k \in 1..Len(blocks) |-> get_sort_key(blocks[k])]
        order  == SortByPosition(keys, 1..Len(blocks))
    IN  [k \in 1..Len(order) |-> blocks[order[k]]]

\* for page in pages: all_blocks.extend(self._extract_content_blocks(page))
RECURSIVE CollectAllBlocks(_)
CollectAllBlocks(pages) ==
    IF pages = <<>> THEN <<>>
    ELSE ExtractPageBlocks(Head(pages)) \o CollectAllBlocks(Tail(pages))

(***************************************************************************)
(* SpecPages: build_structure on documents of up to MaxDocPages pages      *)
(***************************************************************************)
\* most pages of a document
MaxDocPages == 2

PlacedHeader == MkPlaced(MkBlock("TextBlock", "header_1", StreamText, NoFont, <<>>), TRUE, 100, 72)

PlacedParagraph == MkPlaced(MkBlock("TextBlock", "paragraph", StreamText, NoFont, <<>>), TRUE, 200, 72)

PlacedSideParagraph == MkPlaced(MkBlock("TextBlock", "paragraph", StreamText, NoFont, <<>>), TRUE, 100, 300)

PlacedTable == MkPlaced(MkBlock("Table", "", <<>>, NoFont, <<>>), TRUE, 150, 72)

PlacedTableNoBBox == MkPlaced(MkBlock("Table", "", <<>>, NoFont, <<>>), FALSE, 0, 0)

PlacedImage == MkPlaced(MkBlock("ImageInfo", "", <<>>, NoFont, <<>>), TRUE, 50, 72)

\* page.text_blocks in the order the page holds them
PageTextBlockLists ==
    {<<>>, <<PlacedParagraph, PlacedHeader>>,
     <<PlacedSideParagraph, PlacedHeader>>, <<PlacedHeader, PlacedSideParagraph>>}

\* page.tables and page.images
PageTablesAndImages ==
    {<< <<>>, <<>> >>, << <<PlacedTable>>, <<PlacedImage>> >>,
     << <<PlacedTableNoBBox>>, <<>> >>}

\* the pages of a document: page_number counts from 1
DocumentPages ==
    UNION {[1..n -> PageTextBlockLists \X PageTablesAndImages] : n \in 0..MaxDocPages}

\* build_structure(pages) is called: a fresh DocumentStructure and
\* HeaderStack, all_blocks empty
StartBuildPages ==
    /\ \E content \in DocumentPages :
         fn_in = [p \in 1..Len(content) |->
                     MkStructurePage(p, content[p][1], content[p][2][1], content[p][2][2])]
    /\ fn_pc = "build_structure"
    /\ fn_out = <<>>
    /\ sb_pc = "collecting"
    /\ all_blocks = <<>>
    /\ sections = <<>>
    /\ stack = <<>>
    /\ level_map = [l \in 1..6 |-> 0]
    /\ doc_sections = <<>>

\* the loop of build_structure over the pages
CollectPageBlocks ==
    /\ sb_pc = "collecting"
    /\ pending' = CollectAllBlocks(fn_in)
    /\ sb_pc' = "scanning"
    /\ UNCHANGED <<all_blocks, sections, stack, level_map, doc_sections>>
    /\ UNCHANGED <<cc_pc, page_spans, baseline, classified>>
    /\ UNCHANGED <<teVars, fnVars, tcVars, exVars>>

\* one iteration of the loop of build_structure over all_blocks
ScanCollectedBlock ==
    /\ pending # <<>>
    /\ ScanBlock(Head(pending))
    /\ pending' = Tail(pending)
    /\ UNCHANGED <<cc_pc, page_spans, baseline, classified>>
    /\ UNCHANGED <<teVars, fnVars, tcVars, exVars>>

\* the loop is over: return doc
ReturnPagesDoc ==
    /\ pending = <<>>
    /\ ReturnDoc
    /\ UNCHANGED <<ccVars, teVars, fnVars, tcVars, exVars>>

InitPages == StartBuildPages /\ IdleCc /\ IdleTe /\ IdleTc /\ IdleEx

NextPages == CollectPageBlocks \/ ScanCollectedBlock \/ ReturnPagesDoc

SpecPages == InitPages /\ [][NextPages]_vars

(***************************************************************************)
(* Properties of the sequence scanned by build_structure                   *)
(***************************************************************************)
\* the sequence build_structure scans: the blocks scanned so far and the
\* blocks still to be scanned
ScannedSequence == all_blocks \o pending

\* what identifies a block of the scanned sequence: class, content type,
\* page tag and bbox
PlacedAs(b) == <<b.cls, b.content_type, b.page_number, b.has_bbox, b.y0, b.x0>>

\* the blocks the pages hold, each with the number of its page
SourceBlocks ==
    FlattenSeq([p \in 1..Len(fn_in) |-> ExtractPageBlocksUnsorted(fn_in[p])])

KeyAtMost(a, b) ==
    \/ get_sort_key(a).y0 < get_sort_key(b).y0
    \/ get_sort_key(a).y0 = get_sort_key(b).y0 /\ get_sort_key(a).x0 <= get_sort_key(b).x0

BlocksCollected == sb_pc \in {"scanning", "returned", "raised"}

\* C21 as stated: the scanned sequence holds the blocks of all pages, each
\* tagged with its page number, sorted by (y0, x0) over the whole document.
C21_SortedOverDocument ==
    BlocksCollected =>
      \A k \in 1..(Len(ScannedSequence) - 1) :
         KeyAtMost(ScannedSequence[k], ScannedSequence[k + 1])

\* C21: build_structure scans one sequence that holds every block of every
\* page exactly once, tagged with the number of its page; the pages follow
\* each other in the order given, and the blocks of one page are sorted by
\* (y0, x0), a block without bbox counting as (0, 0).
C21_SortedWithinEachPage ==
    BlocksCollected =>
      /\ Len(ScannedSequence) = Len(SourceBlocks)
      /\ \A b \in Range(SourceBlocks) :
            Cardinality({k \in 1..Len(ScannedSequence) : PlacedAs(ScannedSequence[k]) = PlacedAs(b)})
              = Cardinality({k \in 1..Len(SourceBlocks) : PlacedAs(SourceBlocks[k]) = PlacedAs(b)})
      /\ \A k \in 1..(Len(ScannedSequence) - 1) :
            \/ ScannedSequence[k].page_number < ScannedSequence[k + 1].page_number
            \/ /\ ScannedSequence[k].page_number = ScannedSequence[k + 1].page_number
               /\ KeyAtMost(ScannedSequence[k], ScannedSequence[k + 1])

\* a two-page document was scanned to the end, the first page ends lower
\* than the second begins, and a page held its blocks out of reading order
C21_Witness ==
    /\ sb_pc = "returned"
    /\ Len(fn_in) = 2
    /\ Len(all_blocks) >= 4
    /\ \E j, k \in 1..Len(all_blocks) :
          /\ j < k
          /\ all_blocks[j].page_number = 1
          /\ all_blocks[k].page_number = 2
          /\ ~KeyAtMost(all_blocks[j], all_blocks[k])
    /\ \E p \in 1..2 :
          [k \in 1..Len(ExtractPageBlocks(fn_in[p])) |-> PlacedAs(ExtractPageBlocks(fn_in[p])[k])]
            # [k \in 1..Len(ExtractPageBlocksUnsorted(fn_in[p])) |->
                 PlacedAs(ExtractPageBlocksUnsorted(fn_in[p])[k])]


(***************************************************************************)
(* SpecHeaderLevel: _determine_header_level on one TextBlock               *)
(***************************************************************************)
\* a font_info dict with the keys _infer_header_level_from_font reads
MkHeaderFont(font_size, is_bold) ==
    [present |-> TRUE, font_size |-> font_size, is_bold |-> is_bold]

\* the font sizes on both sides of each threshold, in points
HeaderFontSizes == {10, 12, 14, 16, 18, 24}

\* font_info of the block: None, a dict of the classifier, or a dict with
\* font_size and is_bold
HeaderFonts ==
    {NoFont, [size |-> 24, bold |-> TRUE, present |-> TRUE]}
    \cup {MkHeaderFont(sz, bd) : sz \in HeaderFontSizes, bd \in BOOLEAN}

HeaderLevelBlocks ==
    {MkBlock("TextBlock", ct, StreamText, f, <<>>) : ct \in StreamTextTypes, f \in HeaderFonts}

StartHeaderLevel ==
    /\ fn_pc = "ready"
    /\ fn_in \in HeaderLevelBlocks
    /\ fn_out = <<>>

\* section = self._create_section_from_header(block) for a header block,
\* self._determine_header_level(block) alone for any other TextBlock
DetermineLevel ==
    /\ fn_pc = "ready"
    /\ fn_pc' = "done"
    /\ fn_out' = IF IsHeaderBlock(fn_in)
                 THEN <<CreateSectionFromHeader(fn_in).level>>
                 ELSE <<DetermineHeaderLevel(fn_in)>>
    /\ UNCHANGED fn_in
    /\ UNCHANGED <<sbVars, ccVars, teVars, tcVars, exVars>>

InitHeaderLevel == StartHeaderLevel /\ IdleSb /\ IdleCc /\ IdleTe /\ IdleTc /\ IdleEx

NextHeaderLevel == DetermineLevel

SpecHeaderLevel == InitHeaderLevel /\ [][NextHeaderLevel]_vars

\* the level the content type names: HEADER_1..HEADER_6 name 1..6, HEADER
\* names 1, any other type names none (0)
LevelNamedByType(ct) ==
    CASE ct = "header_1" -> 1 [] ct = "header_2" -> 2 [] ct = "header_3" -> 3
      [] ct = "header_4" -> 4 [] ct = "header_5" -> 5 [] ct = "header_6" -> 6
      [] ct = "header" -> 1 [] OTHER -> 0

\* C22: the level of a section made from a header block is the level its
\* content type names, whatever the font size and boldness of the block;
\* only for a content type that names no level is the result the level
\* inferred from the font.
C22_ExplicitLevelWins ==
    fn_pc = "done" =>
      /\ LevelNamedByType(fn_in.content_type) # 0
           => fn_out = <<LevelNamedByType(fn_in.content_type)>>
      /\ LevelNamedByType(fn_in.content_type) = 0
           => fn_out = <<InferHeaderLevelFromFont(fn_in)>>

\* a HEADER_3 block set in bold 24pt, which the font thresholds would make
\* H1, became a section of level 3
C22_Witness ==
    /\ fn_pc = "done"
    /\ fn_in.content_type = "header_3"
    /\ fn_in.font_info = MkHeaderFont(24, TRUE)
    /\ InferHeaderLevelFromFont(fn_in) = 1
    /\ fn_out = <<3>>


(***************************************************************************)
(* Properties of the content statistics of a section (SpecStructure)       *)
(***************************************************************************)
\* the blocks of section s that satisfy Is
AttachedCount(s, Is(_)) ==
    Cardinality({k \in 1..Len(sections[s].content_blocks) :
                    Is(all_blocks[sections[s].content_blocks[k]])})

IsListBlock(b) == b.cls = "TextBlock" /\ b.content_type = "list"

IsParagraphBlock(b) == b.cls = "TextBlock" /\ b.content_type = "paragraph"

IsTableBlock(b) == b.cls = "Table"

IsImageBlock(b) == b.cls = "ImageInfo"

\* C23: in every section, content_stats.total_blocks is the number of blocks
\* in content_blocks and the sum of the type counters, and the counters
\* lists, tables, images and paragraphs count the attached blocks of their
\* type.
C23_StatsCountAttachedBlocks ==
    \A s \in 1..Len(sections) :
       LET st == sections[s].content_stats
       IN  /\ st.total_blocks = Len(sections[s].content_blocks)
           /\ st.total_blocks = st.text_blocks + st.tables + st.images
                                  + st.paragraphs + st.lists + st.other
           /\ st.lists = AttachedCount(s, IsListBlock)
           /\ st.tables = AttachedCount(s, IsTableBlock)
           /\ st.images = AttachedCount(s, IsImageBlock)
           /\ st.paragraphs = AttachedCount(s, IsParagraphBlock)


(***************************************************************************)
(* SpecValidate: the validate_table of the three wrappers on one table     *)
(***************************************************************************)
\* most rows of a table given to validate_table
MaxValidateRows == 3

\* rows of string cells: full rows of several widths, a half-empty row and
\* an empty row
ValidateRows ==
    {<<>>, <<X>>, <<X, X>>, <<X, E>>, <<E, E>>, <<X, X, X, X>>}

ValidateTables == UNION {[1..n -> ValidateRows] : n \in 0..MaxValidateRows}

StartValidate ==
    /\ fn_pc = "ready"
    /\ fn_in \in ValidateTables
    /\ fn_out = <<>>

\* wrapper.validate_table(table) of each wrapper on the same table
ValidateWithEach ==
    /\ fn_pc = "ready"
    /\ fn_pc' = "done"
    /\ fn_out' = [v \in {"pdfplumber", "camelot", "tabula"} |-> ValidateTable(v, fn_in)]
    /\ UNCHANGED fn_in
    /\ UNCHANGED <<sbVars, ccVars, teVars, tcVars, exVars>>

InitValidate == StartValidate /\ IdleSb /\ IdleCc /\ IdleTe /\ IdleTc /\ IdleEx

NextValidate == ValidateWithEach

SpecValidate == InitValidate /\ [][NextValidate]_vars

\* C24: every table accepted by the validate_table of pdfplumber or by the
\* validate_table of camelot is accepted by the validate_table of tabula.
C24_TabulaMostLenient ==
    fn_pc = "done" =>
      /\ fn_out["pdfplumber"] => fn_out["tabula"]
      /\ fn_out["camelot"] => fn_out["tabula"]


(***************************************************************************)
(* SpecAnalysis: repeated calls of _analyze_page_structure on one          *)
(* TableExtractor.  fn_in is what fitz shows of each page of the document, *)
(* fn_out the calls made so far.                                           *)
(***************************************************************************)
\* most calls of _analyze_page_structure in a run
MaxAnalysisCalls == 3

\* TableExtractor(filepath) constructed: _page_analysis_cache = {}
StartAnalysis ==
    /\ te_pc = "analysing"
    /\ te_cfg = [enable_pre_analysis |-> TRUE, fallback_on_failure |-> TRUE]
    /\ te_page = 0
    /\ te_cache = [p \in Pages |-> NoAnalysis]
    /\ te_analysis = NoAnalysis
    /\ te_chain = NoChain
    /\ te_calls = <<>>
    /\ te_faulty = {}
    /\ te_result = NewResult(0)
    /\ fn_pc = "document"
    /\ fn_in \in [Pages -> PageFacts]
    /\ fn_out = <<>>

\* self._analyze_page_structure(page_num); opened: the call went past the
\* cache lookup and opened the document
AnalyzePage ==
    /\ te_pc = "analysing"
    /\ Len(fn_out) < MaxAnalysisCalls
    /\ \E p \in Pages :
         LET r == AnalyzePageStructure(te_cache, p, fn_in[p])
         IN  /\ te_page' = p
             /\ te_analysis' = r.analysis
             /\ te_cache' = r.cache
             /\ fn_out' = Append(fn_out, [page_num |-> p, analysis |-> r.analysis,
                                          opened |-> te_cache[p] = NoAnalysis])
    /\ UNCHANGED <<te_pc, te_cfg, te_chain, te_calls, te_faulty, te_result>>
    /\ UNCHANGED <<fn_pc, fn_in>>
    /\ UNCHANGED <<sbVars, ccVars, tcVars, exVars>>

InitAnalysis == StartAnalysis /\ IdleSb /\ IdleCc /\ IdleTc /\ IdleEx

NextAnalysis == AnalyzePage

SpecAnalysis == InitAnalysis /\ [][NextAnalysis]_vars

\* C25: once _analyze_page_structure has returned for a page number, valid
\* or out of range, the cache holds for that page the analysis returned,
\* and every later call for the same page returns that analysis without
\* opening the document again.
C25_AnalysisMemoised ==
    \A k \in 1..Len(fn_out) :
       /\ te_cache[fn_out[k].page_num] = fn_out[k].analysis
       /\ \A j \in (k + 1)..Len(fn_out) :
             fn_out[j].page_num = fn_out[k].page_num
               => ~fn_out[j].opened /\ fn_out[j].analysis = fn_out[k].analysis


\* s is t with some elements left out, the others in their order
RECURSIVE IsSubsequence(_, _)
IsSubsequence(s, t) ==
    IF s = <<>> THEN TRUE
    ELSE IF t = <<>> THEN FALSE
    ELSE IF Head(s) = Head(t) THEN IsSubsequence(Tail(s), Tail(t))
    ELSE IsSubsequence(s, Tail(t))

NonTextBlocks(page) == SelectSeq(page.content_blocks, LAMBDA b : b.block_type # 0)

BlockBoxes(page) == [i \in 1..Len(page.content_blocks) |-> page.content_blocks[i].bbox]

\* C26: clean_pages returns one page per input page in the same order, and
\* each returned page keeps the page number, the dimensions, the rotation,
\* the non-text content blocks, the tables and the images of the input
\* page, with the remaining blocks in their original order.
C26_PagesKeepAllButArtifacts ==
    tc_pc = "cleaned" =>
      /\ Len(tc_cleaned) = Len(tc_pages)
      /\ \A i \in 1..Len(tc_pages) :
            /\ tc_cleaned[i].page_number = tc_pages[i].page_number
            /\ tc_cleaned[i].page_width = tc_pages[i].page_width
            /\ tc_cleaned[i].page_height = tc_pages[i].page_height
            /\ tc_cleaned[i].rotation = tc_pages[i].rotation
            /\ NonTextBlocks(tc_cleaned[i]) = NonTextBlocks(tc_pages[i])
            /\ IsSubsequence(BlockBoxes(tc_cleaned[i]), BlockBoxes(tc_pages[i]))
            /\ tc_cleaned[i].tables = tc_pages[i].tables
            /\ tc_cleaned[i].images = tc_pages[i].images


(***************************************************************************)
(* Properties of the section tree (SpecStructure)                          *)
(***************************************************************************)
\* how often section s is listed by get_all_sections
TimesReachable(s) ==
    Cardinality({k \in 1..Len(get_all_sections) : get_all_sections[k] = s})

\* the sections that hold s among their subsections
HoldersOf(s) ==
    {p \in 1..Len(sections) :
        \E k \in 1..Len(sections[p].subsections) : sections[p].subsections[k] = s}

IsTopLevel(s) == \E k \in 1..Len(doc_sections) : doc_sections[k] = s

\* C27: when build_structure returns, every section made from a header or
\* as a default section is reachable from DocumentStructure.sections exactly
\* once, as a top-level section or as a subsection of exactly one parent,
\* and the level of every subsection is greater than the level of its
\* parent.
C27_SectionsFormTree ==
    sb_pc = "returned" =>
      \A s \in 1..Len(sections) :
         /\ TimesReachable(s) = 1
         /\ \/ IsTopLevel(s) /\ HoldersOf(s) = {}
            \/ ~IsTopLevel(s) /\ Cardinality(HoldersOf(s)) = 1
         /\ \A p \in HoldersOf(s) : sections[s].level > sections[p].level


(***************************************************************************)
(* Properties of the fallback decision (SpecTables)                        *)
(***************************************************************************)
\* a backend of the primary chain returned a table passing its own
\* validate_table
PrimaryReturnedValidTable ==
    \E k \in 1..Len(CallsOf("primary")) : ReturnedValidTable(CallsOf("primary")[k])

\* no candidate table of the chain passes step 4
AllRejectedByQuality ==
    /\ te_chain.tables # <<>>
    /\ \A i \in 1..Len(te_chain.tables) :
          ~AnalysisRaises(te_chain.tables[i]) /\ ~TableAccepted(te_chain.tables[i])

\* C28: once a backend of the primary strategy's chain has returned a table
\* that passes its own validate_table, the chain of the other strategy is
\* never run, also when step 4 rejects every one of the tables and the page
\* ends with success = False.
C28_FallbackByValidationOnly ==
    (te_pc \in {"score", "done"} /\ PrimaryReturnedValidTable)
       => /\ CallsOf("fallback") = <<>>
          /\ (te_pc = "done" /\ te_faulty = {} /\ AllRejectedByQuality)
                => ~te_result.success /\ te_result.tables = <<>>

\* with the fallback enabled, the primary chain returned a validated table,
\* the quality threshold rejected every table, and the page ended
\* unsuccessful without a call of the other chain
C28_Witness ==
    /\ te_pc = "done"
    /\ te_cfg.fallback_on_failure
    /\ PrimaryReturnedValidTable
    /\ te_faulty = {}
    /\ AllRejectedByQuality
    /\ ~te_result.success
    /\ CallsOf("fallback") = <<>>


(***************************************************************************)
(* Properties of the blocks of classify_page_content (SpecPipeline)        *)
(***************************************************************************)
\* the spans of the classified blocks, block after block
EmittedSpans == FlattenSeq([g \in 1..Len(classified) |-> classified[g].block.spans])

SpanBefore(i, j) ==
    \/ page_spans[i].y0 < page_spans[j].y0
    \/ page_spans[i].y0 = page_spans[j].y0 /\ page_spans[i].x0 <= page_spans[j].x0

\* C29: every non-empty span is part of exactly one classified block and
\* occurs in it once, an empty span of none; the blocks and the spans in
\* them follow the (y0, x0) order of the spans; a block made of several
\* spans is a PARAGRAPH made of paragraph spans only.
C29_SpansKeptOnceInOrder ==
    cc_pc # "start" =>
      /\ \A i \in 1..Len(page_spans) :
            Cardinality({k \in 1..Len(EmittedSpans) : EmittedSpans[k] = i})
               = (IF NonEmptySpan(page_spans[i]) THEN 1 ELSE 0)
      /\ \A k \in 1..(Len(EmittedSpans) - 1) :
            SpanBefore(EmittedSpans[k], EmittedSpans[k + 1])
      /\ \A g \in 1..Len(classified) :
            /\ classified[g].block.spans # <<>>
            /\ Len(classified[g].block.spans) > 1 =>
                 /\ classified[g].block.content_type = "paragraph"
                 /\ \A k \in 1..Len(classified[g].block.spans) :
                       DetermineContentType(page_spans[classified[g].block.spans[k]],
                                            baseline) = "paragraph"

\* two paragraph spans that the page holds bottom first came out as one
\* merged block, top first
C29_Witness ==
    /\ cc_pc # "start"
    /\ Len(page_spans) = 2
    /\ page_spans[1].y0 > page_spans[2].y0
    /\ Len(classified) = 1
    /\ classified[1].block.spans = <<2, 1>>
    /\ classified[1].block.content_type = "paragraph"


(***************************************************************************)
(* Properties of the sections of process_with_classifier (SpecPipeline)    *)
(***************************************************************************)
\* the classified blocks that are headers of any type
ClassifiedHeaders ==
    {g \in 1..Len(classified) : is_header_type(classified[g].block.content_type)}

\* the sections made from a header
HeaderSections == {s \in 1..Len(sections) : ~sections[s].is_default}

\* C30: when process_with_classifier returns, every header the classifier
\* found is of the generic type HEADER, whatever header_level its metadata
\* names, and has become a section of level H1 listed in
\* DocumentStructure.sections; every section of the document is a top-level
\* section of level H1 without subsections.
C30_ClassifierHeadersAreTopLevel ==
    sb_pc = "returned" =>
      /\ \A g \in ClassifiedHeaders :
            /\ classified[g].block.content_type = "header"
            /\ \E k \in 1..Len(doc_sections) :
                  /\ sections[doc_sections[k]].title = classified[g].block.text
                  /\ sections[doc_sections[k]].level = 1
                  /\ ~sections[doc_sections[k]].is_default
      /\ Cardinality(HeaderSections) = Cardinality(ClassifiedHeaders)
      /\ \A s \in 1..Len(sections) :
            /\ sections[s].level = 1
            /\ sections[s].subsections = <<>>
            /\ Cardinality({k \in 1..Len(doc_sections) : doc_sections[k] = s}) = 1

\* a header whose header_level metadata names a level below 1 became a
\* top-level section of level H1, next to the default section of a paragraph
C30_Witness ==
    /\ sb_pc = "returned"
    /\ \E g \in ClassifiedHeaders :
          /\ classified[g].header_level >= 2
          /\ \E k \in 1..Len(doc_sections) :
                /\ sections[doc_sections[k]].title = classified[g].block.text
                /\ sections[doc_sections[k]].level = 1
    /\ Len(doc_sections) = 2

====
